---------------------------- MODULE Spec2Model ----------------------------
(***************************************************************************)
(* A model of the Scumm2026 adventure-game core: the movement of the       *)
(* player character (CharacterController) and of NPCs (NPC), the depth     *)
(* sorter (DepthManager) and the dialogue engine (DialogueManager) with    *)
(* the Game handlers that drive it.                                        *)
(***************************************************************************)
EXTENDS Integers, Sequences, FiniteSets, TLC

VARIABLES
  now,          \* performance.now(), in milliseconds
  char,         \* the CharacterController and its sprite
  npc,          \* one NPC (Maya, "street-vendor") and its sprite
  sprites,      \* DepthManager.sprites, a Map in insertion order
  children,     \* the children of DepthManager.container, back to front
  destroyed,    \* the display objects that have been destroyed
  needsSort,    \* DepthManager.needsSort
  dialogueTrees,\* DialogueManager.dialogueTrees, by NPC id
  currentState, \* DialogueManager.currentState
  gameFlags,    \* DialogueManager.gameFlags
  inventory,    \* the ids of the items the player holds (InventorySystem)
  uiResponses,  \* the responses DialogueUI offers, by id
  timers,       \* the callbacks handed to setTimeout and not yet run
  stages,       \* StageManager.stages, the stage catalog, by stage id
  transitions,  \* StageManager.transitions, in the order they were added
  currentStage, \* the id of StageManager.currentStage, or Undefined
  backgroundSprite, \* StageManager.backgroundSprite, a handle, or 0
  keySprite,    \* StageManager.keySprite, a handle, or 0
  removedObjects, \* StageManager.removedObjects, as pairs <<stageId, objectId>>
  loadedAssets, \* AssetManager.loadedAssets, the names loaded
  objects,      \* ObjectManager.objects, a Map in insertion order
  hoveredObject,\* ObjectManager.hoveredObject: <<>> or <<[id, ref]>>
  npcs,         \* NPCManager.npcs, by NPC id
  overlays,     \* StageOverlayManager.overlays, by overlay id
  pendingAction,\* Game.pendingAction: <<>> or <<action, objectId>>
  speech,       \* the text last handed to SpeechBubble.showSpeech
  wasCharacterMoving, \* Game.wasCharacterMoving
  pendingNPCAction, \* Game.pendingNPCAction: <<>> or <<action, npcId>>
  pendingItemObjectAction, \* Game.pendingItemObjectAction: <<>> or <<itemId, objectId>>
  selectedInventoryItem, \* Game.selectedInventoryItem: <<>> or <<itemId>>
  loading,      \* the stage transitions suspended at the load of an overlay image
  bubble,       \* the SpeechBubble (text, isVisible, hideTimer) and the last timer id
  op,           \* the operation that made the last step, with its arguments
  ret           \* what that operation returned

moveVars  == <<now, char, npc, bubble>>
depthVars == <<sprites, children, destroyed, needsSort>>
dialogueVars == <<dialogueTrees, currentState, gameFlags, inventory, uiResponses, timers>>
clickVars == <<pendingNPCAction, pendingItemObjectAction, selectedInventoryItem, loading>>
stageVars == <<stages, transitions, currentStage, backgroundSprite, keySprite, removedObjects,
               loadedAssets, objects, hoveredObject, npcs, overlays, pendingAction,
               speech, wasCharacterMoving, clickVars>>
vars == <<now, char, npc, bubble, sprites, children, destroyed, needsSort,
          dialogueTrees, currentState, gameFlags, inventory, uiResponses, timers,
          stages, transitions, currentStage, backgroundSprite, keySprite, removedObjects,
          loadedAssets, objects, hoveredObject, npcs, overlays, pendingAction, speech,
          wasCharacterMoving, pendingNPCAction, pendingItemObjectAction,
          selectedInventoryItem, loading, op, ret>>

Undefined == "undefined"

\* The value of an expression worked out once: Only({e(x) : x \in {v}})
Only(S) == CHOOSE x \in S : TRUE

(***************************************************************************)
(* JavaScript numbers.  A number is a pair <<n, d>>: for d > 0 the         *)
(* fraction n/d in lowest terms; <<0,0>> is NaN, <<1,0>> is +Infinity and  *)
(* <<-1,0>> is -Infinity.  Arithmetic follows IEEE 754 on these values;    *)
(* the rounding of doubles and the sign of zero are not modelled.          *)
(***************************************************************************)
RECURSIVE Gcd(_, _)
Gcd(a0, b0) == Only({ IF b = 0 THEN a ELSE Gcd(b, a % b) : a \in {a0}, b \in {b0} })

AbsInt(a) == IF a < 0 THEN -a ELSE a

SignInt(a) == IF a < 0 THEN -1 ELSE IF a > 0 THEN 1 ELSE 0

NaN == <<0, 0>>

Inf(s) == <<s, 0>>

Num(i) == <<i, 1>>

Norm(n0, d0) ==
  Only({ Only({ IF d < 0 THEN <<(-n) \div g, (-d) \div g>> ELSE <<n \div g, d \div g>> :
                g \in {Gcd(AbsInt(n), AbsInt(d))} }) :
         n \in {n0}, d \in {d0} })

IsNaN(a) == a[2] = 0 /\ a[1] = 0

IsFinite(a) == a[2] > 0

Sign(a) == SignInt(a[1])

Neg(a) == <<-a[1], a[2]>>

Abs(a) == <<AbsInt(a[1]), a[2]>>

Add(a, b) ==
  IF IsNaN(a) \/ IsNaN(b) THEN NaN
  ELSE IF IsFinite(a) /\ IsFinite(b) THEN Norm(a[1] * b[2] + b[1] * a[2], a[2] * b[2])
  ELSE IF IsFinite(a) THEN b
  ELSE IF IsFinite(b) THEN a
  ELSE IF a = b THEN a ELSE NaN

Sub(a, b) == Add(a, Neg(b))

Mul(a, b) ==
  IF IsNaN(a) \/ IsNaN(b) THEN NaN
  ELSE IF IsFinite(a) /\ IsFinite(b) THEN Norm(a[1] * b[1], a[2] * b[2])
  ELSE IF Sign(a) = 0 \/ Sign(b) = 0 THEN NaN
  ELSE Inf(Sign(a) * Sign(b))

Div(a, b) ==
  IF IsNaN(a) \/ IsNaN(b) THEN NaN
  ELSE IF IsFinite(b) /\ Sign(b) # 0
    THEN IF IsFinite(a) THEN Norm(a[1] * b[2], a[2] * b[1])
         ELSE Inf(Sign(a) * Sign(b))
  ELSE IF IsFinite(b)                       \* division by zero
    THEN IF Sign(a) = 0 THEN NaN ELSE Inf(Sign(a))
  ELSE IF IsFinite(a) THEN Num(0)           \* finite / Infinity
  ELSE NaN

Lt(a, b) ==
  /\ ~IsNaN(a)
  /\ ~IsNaN(b)
  /\ IF IsFinite(a) /\ IsFinite(b) THEN a[1] * b[2] < b[1] * a[2]
     ELSE (IF IsFinite(a) THEN 0 ELSE Sign(a)) < (IF IsFinite(b) THEN 0 ELSE Sign(b))

Gt(a, b) == Lt(b, a)

Ge(a, b) == ~IsNaN(a) /\ ~IsNaN(b) /\ ~Lt(a, b)

\* Math.max and Math.min: NaN when either argument is NaN.
Max(a, b) == IF IsNaN(a) \/ IsNaN(b) THEN NaN ELSE IF Lt(a, b) THEN b ELSE a

Min(a, b) == IF IsNaN(a) \/ IsNaN(b) THEN NaN ELSE IF Lt(b, a) THEN b ELSE a

\* The whole part of the square root of m, by bisection: lo*lo <= m < hi*hi.
RECURSIVE ISqrtBetween(_, _, _)
ISqrtBetween(m, lo0, hi0) ==
  Only({ IF hi - lo <= 1 THEN lo
         ELSE Only({ IF mid * mid <= m THEN ISqrtBetween(m, mid, hi)
                     ELSE ISqrtBetween(m, lo, mid) :
                     mid \in {(lo + hi) \div 2} }) :
         lo \in {lo0}, hi \in {hi0} })

\* Math.sqrt, rounded down to a whole number (a double rounds too, far finer).
Sqrt(a0) ==
  Only({ IF IsNaN(a) \/ Sign(a) < 0 THEN NaN
         ELSE IF ~IsFinite(a) THEN a
         ELSE Only({ Num(ISqrtBetween(m, 0, IF m < 46340 THEN m + 1 ELSE 46340)) :
                     m \in {a[1] \div a[2]} }) :
         a \in {a0} })

Pos(x, y) == [x |-> Num(x), y |-> Num(y)]

(***************************************************************************)
(* DialogueManager.  A tree is a record of npcId, startNodeId and nodes (a *)
(* function from node ids); a node holds id, responses and conditions; a   *)
(* response holds id, nextNodeId, conditions, setFlag (a sequence of none  *)
(* or one key/value record), removeItem and addItem.  What a tree leaves   *)
(* out is Undefined, and so is the value of a flag never set.  An          *)
(* inventory argument is a sequence: empty when the argument is left out,  *)
(* else holding the Set passed.                                            *)
(***************************************************************************)
Null == "null"

\* new SpeechBubble(): nothing shown and no hide timer, written 0 (the code
\* tests hideTimer for truth only, and the ids of setTimeout are integers
\* above zero); setTimeout has handed out no id yet
NewSpeechBubble ==
  [text |-> "", isVisible |-> FALSE, hideTimer |-> 0, lastTimer |-> 0]

Inactive == [isActive |-> FALSE, npcId |-> Undefined, currentNodeId |-> Undefined]

GetFlag(flags, key) == IF key \in DOMAIN flags THEN flags[key] ELSE Undefined

SetFlag(flags, key, value) ==
  [k \in DOMAIN flags \cup {key} |-> IF k = key THEN value ELSE flags[k]]

CheckCondition(condition, flags, inv) ==
  CASE condition.type = "always" -> TRUE
    [] condition.type = "flag" ->
         IF condition.key = Undefined THEN FALSE
         ELSE GetFlag(flags, condition.key) = condition.value
    [] condition.type = "inventory" ->
         IF condition.key = Undefined \/ inv = <<>> THEN FALSE
         ELSE condition.key \in inv[1]
    [] OTHER -> FALSE

CheckConditions(conditions, flags, inv) ==
  \A i \in 1..Len(conditions) : CheckCondition(conditions[i], flags, inv)

\* No stage manager: nothing catalogued, nothing loaded.
NoStage ==
  /\ stages = <<>>
  /\ transitions = <<>>
  /\ currentStage = Undefined
  /\ backgroundSprite = 0
  /\ keySprite = 0
  /\ removedObjects = {}
  /\ loadedAssets = {}
  /\ objects = <<>>
  /\ hoveredObject = <<>>
  /\ npcs = <<>>
  /\ overlays = <<>>
  /\ pendingAction = <<>>
  /\ speech = Undefined
  /\ wasCharacterMoving = FALSE
  /\ pendingNPCAction = <<>>
  /\ pendingItemObjectAction = <<>>
  /\ selectedInventoryItem = <<>>
  /\ loading = <<>>

\* No dialogue: nothing registered, nothing said, nothing held.
NoDialogue ==
  /\ dialogueTrees = <<>>
  /\ currentState = Inactive
  /\ gameFlags = <<>>
  /\ inventory = {}
  /\ uiResponses = <<>>
  /\ timers = {}

\* DialogueManager.startDialogue(npcId, npcPosition): the state afterwards
\* and the id of the node returned, or Null.
StartDialogue(trees, state, flags, npcId) ==
  IF npcId \notin DOMAIN trees THEN [state |-> state, ret |-> Null]
  ELSE
    LET tree == trees[npcId]
    IN  IF tree.startNodeId \notin DOMAIN tree.nodes THEN [state |-> state, ret |-> Null]
        ELSE IF ~CheckConditions(tree.nodes[tree.startNodeId].conditions, flags, <<>>)
          THEN [state |-> state, ret |-> Null]
        ELSE [state |-> [isActive |-> TRUE, npcId |-> npcId, currentNodeId |-> tree.startNodeId],
              ret |-> tree.startNodeId]

\* getCurrentNode() returns a node
HasCurrentNode(trees, state) ==
  /\ state.isActive
  /\ state.npcId \in DOMAIN trees
  /\ state.currentNodeId \in DOMAIN trees[state.npcId].nodes

GetCurrentNode(trees, state) == trees[state.npcId].nodes[state.currentNodeId]

GetAvailableResponses(trees, state, flags, inv) ==
  IF ~HasCurrentNode(trees, state) THEN <<>>
  ELSE SelectSeq(GetCurrentNode(trees, state).responses,
                 LAMBDA r : CheckConditions(r.conditions, flags, inv))

\* Array.prototype.find by response id: a sequence of none or one response
FindResponse(responses, responseId) ==
  LET found == SelectSeq(responses, LAMBDA r : r.id = responseId)
  IN  IF found = <<>> THEN <<>> ELSE <<found[1]>>

\* An endDialogue that only clears isActive and keeps the tree, the node
\* and the participant of the dialogue ended.
EndDialogueKeepsNode(state) == [state EXCEPT !.isActive = FALSE]

\* DialogueManager.endDialogue(): currentState = { isActive: false }
EndDialogue(state) == Inactive

\* A response's effects as chooseResponse makes them: the flags and the Set
\* passed as they are afterwards.
ResponseEffectsAddFirst(response, flags, items) ==
  LET items1 == IF response.addItem # Undefined
                  THEN items \cup {response.addItem} ELSE items
  IN  [ flags |-> IF response.setFlag # <<>>
                    THEN SetFlag(flags, response.setFlag[1].key, response.setFlag[1].value)
                    ELSE flags,
        inventory |-> IF response.removeItem # Undefined
                        THEN items1 \ {response.removeItem} ELSE items1 ]

ResponseEffects(response, flags, items) ==
  LET items1 == IF response.removeItem # Undefined
                  THEN items \ {response.removeItem} ELSE items
  IN  [ flags |-> IF response.setFlag # <<>>
                    THEN SetFlag(flags, response.setFlag[1].key, response.setFlag[1].value)
                    ELSE flags,
        inventory |-> IF response.addItem # Undefined
                        THEN items1 \cup {response.addItem} ELSE items1 ]

\* The test chooseResponse makes before it moves on: a next node is named.
NextNodeNamed(nodes, response, flags, items) == response.nextNodeId # Undefined

\* The test chooseResponse makes before it moves on: a next node is named,
\* it is a node of the tree, and its conditions hold.
NextNodeAvailable(nodes, response, flags, items) ==
  /\ response.nextNodeId # Undefined
  /\ response.nextNodeId \in DOMAIN nodes
  /\ CheckConditions(nodes[response.nextNodeId].conditions, flags, <<items>>)

\* A chooseResponse that tests the next node's conditions against the flags
\* and the inventory as they were before the response's effects.
TakeResponseStaleConditions(trees, state, response, flags, items) ==
  LET after == ResponseEffects(response, flags, items)
  IN  IF NextNodeAvailable(trees[state.npcId].nodes, response, flags, items)
        THEN [state |-> [state EXCEPT !.currentNodeId = response.nextNodeId],
              flags |-> after.flags, inventory |-> after.inventory,
              ret |-> response.nextNodeId, accepted |-> TRUE]
        ELSE [state |-> EndDialogue(state),
              flags |-> after.flags, inventory |-> after.inventory,
              ret |-> Null, accepted |-> TRUE]

\* A chooseResponse that stays at the current node when the next node is
\* named but is no node of the tree.
TakeResponseStaysAtNode(trees, state, response, flags, items) ==
  LET after == ResponseEffects(response, flags, items)
  IN  IF NextNodeAvailable(trees[state.npcId].nodes, response, after.flags, after.inventory)
        THEN [state |-> [state EXCEPT !.currentNodeId = response.nextNodeId],
              flags |-> after.flags, inventory |-> after.inventory,
              ret |-> response.nextNodeId, accepted |-> TRUE]
        ELSE IF response.nextNodeId # Undefined
          THEN [state |-> state,
                flags |-> after.flags, inventory |-> after.inventory,
                ret |-> state.currentNodeId, accepted |-> TRUE]
        ELSE [state |-> EndDialogue(state),
              flags |-> after.flags, inventory |-> after.inventory,
              ret |-> Null, accepted |-> TRUE]

\* chooseResponse from the response found on: its effects, then the move to
\* the next node or the end of the dialogue.
TakeResponse(trees, state, response, flags, items) ==
  LET after == ResponseEffects(response, flags, items)
  IN  IF NextNodeAvailable(trees[state.npcId].nodes, response, after.flags, after.inventory)
        THEN [state |-> [state EXCEPT !.currentNodeId = response.nextNodeId],
              flags |-> after.flags, inventory |-> after.inventory,
              ret |-> response.nextNodeId, accepted |-> TRUE]
        ELSE [state |-> EndDialogue(state),
              flags |-> after.flags, inventory |-> after.inventory,
              ret |-> Null, accepted |-> TRUE]

\* A chooseResponse that takes a response without testing its conditions.
ChooseResponseUnchecked(trees, state, flags, responseId, items) ==
  LET rejected == [state |-> state, flags |-> flags, inventory |-> items,
                   ret |-> Null, accepted |-> FALSE]
  IN  IF ~HasCurrentNode(trees, state) THEN rejected
      ELSE LET found == FindResponse(GetCurrentNode(trees, state).responses, responseId)
           IN  IF found = <<>> THEN rejected
               ELSE TakeResponse(trees, state, found[1], flags, items)

\* DialogueManager.chooseResponse(responseId, inventory): the state, the
\* flags and the Set passed as they are afterwards, the id of the node
\* returned or Null, and whether the response was taken.
ChooseResponse(trees, state, flags, responseId, items) ==
  LET rejected == [state |-> state, flags |-> flags, inventory |-> items,
                   ret |-> Null, accepted |-> FALSE]
  IN  IF ~HasCurrentNode(trees, state) THEN rejected
      ELSE LET found == FindResponse(GetCurrentNode(trees, state).responses, responseId)
           IN  IF found = <<>> THEN rejected
               ELSE IF ~CheckConditions(found[1].conditions, flags, <<items>>) THEN rejected
               ELSE TakeResponse(trees, state, found[1], flags, items)

(***************************************************************************)
(* Geometry: the even-odd ray-casting test, the same code in               *)
(* CharacterController and in NPC.                                         *)
(***************************************************************************)
IsPointInPolygon(x, y, polygon) ==
  LET n == Len(polygon)
      Crosses(i) ==
        LET j  == IF i = 1 THEN n ELSE i - 1
            xi == polygon[i].x
            yi == polygon[i].y
            xj == polygon[j].x
            yj == polygon[j].y
        IN  /\ Gt(yi, y) # Gt(yj, y)
            /\ Lt(x, Add(Div(Mul(Sub(xj, xi), Sub(y, yi)), Sub(yj, yi)), xi))
  IN  Cardinality({i \in 1..n : Crosses(i)}) % 2 = 1

\* A walkability test that goes to the polygon test whatever the number of
\* vertices.
IsPositionWalkableUnguarded(x, y, walkableArea) == IsPointInPolygon(x, y, walkableArea)

\* A walkable area that was never set is the empty sequence.
IsPositionWalkable(x, y, walkableArea) ==
  IF Len(walkableArea) < 3 THEN TRUE
  ELSE IsPointInPolygon(x, y, walkableArea)

(***************************************************************************)
(* The stage data the movement model runs on: stage "cyberpunk-street".    *)
(***************************************************************************)
CyberpunkWalkableArea ==
  << Pos(0, 803), Pos(3, 692), Pos(387, 610), Pos(568, 610), Pos(976, 707), Pos(1024, 803) >>

CharacterStartPosition == Pos(400, 690)

CyberpunkYMovementFactor == <<1, 5>>       \* 0.2

MayaPosition == Pos(36, 712)

(***************************************************************************)
(* CharacterController                                                     *)
(***************************************************************************)
MoveSpeed == 180

FrameDuration == 250

MsPerSecond == 1000

DefaultYMovementFactor == <<1, 2>>         \* 0.5

SetYMovementFactor(factor) == Max(<<1, 10>>, Min(Num(1), factor))

CalculateDirection(from, to) ==
  LET dx == Sub(to.x, from.x)
      dy == Sub(to.y, from.y)
  IN  IF Gt(Abs(dx), Abs(dy))
        THEN (IF Gt(dx, Num(0)) THEN "right" ELSE "left")
        ELSE (IF Gt(dy, Num(0)) THEN "down" ELSE "up")

\* new CharacterController(sprite, sprites), the sprite standing at position p
NewCharacterController(p) ==
  [ x |-> p.x, y |-> p.y,
    isMoving |-> FALSE,
    startPosition |-> p,
    targetPosition |-> p,
    startTime |-> Num(0),
    duration |-> Num(0),
    currentFrame |-> "idle",
    frameStartTime |-> Num(0),
    isWalking |-> FALSE,
    currentDirection |-> "down",
    walkableArea |-> <<>>,
    yMovementFactor |-> DefaultYMovementFactor ]

\* CharacterController.moveTo past its walkability check: the movement is
\* set up from the sprite's position at time t.
CharStartMove(c, targetX, targetY, t) ==
  LET startX == c.x
      startY == c.y
      deltaX == Sub(targetX, startX)
      deltaY == Sub(targetY, startY)
      xSpeed == Num(MoveSpeed)
      ySpeed == Mul(Num(MoveSpeed), c.yMovementFactor)
      xTime  == Div(Abs(deltaX), xSpeed)
      yTime  == Div(Abs(deltaY), ySpeed)
      duration == Max(xTime, yTime)
      newDirection == CalculateDirection([x |-> startX, y |-> startY],
                                         [x |-> targetX, y |-> targetY])
  IN  [ state |-> [c EXCEPT !.isMoving = TRUE,
                            !.startPosition = [x |-> startX, y |-> startY],
                            !.targetPosition = [x |-> targetX, y |-> targetY],
                            !.startTime = Num(t),
                            !.duration = Mul(duration, Num(MsPerSecond)),
                            !.currentDirection = newDirection,
                            !.isWalking = TRUE,
                            !.frameStartTime = Num(t)],
        ret |-> TRUE ]

\* A moveTo that skips the walkability check.
CharMoveToUnchecked(c, targetX, targetY, t) == CharStartMove(c, targetX, targetY, t)

\* CharacterController.moveTo(targetX, targetY) at time t: the controller
\* afterwards and the value returned.
CharMoveTo(c, targetX, targetY, t) ==
  IF ~IsPositionWalkable(targetX, targetY, c.walkableArea)
    THEN [state |-> c, ret |-> FALSE]
    ELSE CharStartMove(c, targetX, targetY, t)

\* CharacterController.updateMovement(currentTime), without the move callback
CharUpdateMovement(c, t) ==
  IF ~c.isMoving THEN c
  ELSE
    Only({ Only({ IF Ge(progress, Num(1))
                    THEN [moved EXCEPT !.isMoving = FALSE, !.isWalking = FALSE,
                                       !.currentFrame = "idle"]
                    ELSE moved :
                  moved \in {[c EXCEPT
                     !.x = Add(c.startPosition.x,
                               Mul(Sub(c.targetPosition.x, c.startPosition.x), progress)),
                     !.y = Add(c.startPosition.y,
                               Mul(Sub(c.targetPosition.y, c.startPosition.y), progress))]} }) :
           progress \in {Min(Div(Sub(Num(t), c.startTime), c.duration), Num(1))} })

NextWalkFrame(frame) ==
  CASE frame = "idle"  -> "walk1"
    [] frame = "walk4" -> "walk1"
    [] frame = "walk1" -> "walk2"
    [] frame = "walk2" -> "walk3"
    [] frame = "walk3" -> "walk4"

\* CharacterController.updateAnimation(currentTime)
CharUpdateAnimation(c, t) ==
  LET elapsed == Sub(Num(t), c.frameStartTime)
  IN  IF Ge(elapsed, Num(FrameDuration))
        THEN [c EXCEPT !.currentFrame = IF c.isWalking THEN NextWalkFrame(c.currentFrame) ELSE "idle",
                       !.frameStartTime = Num(t)]
        ELSE c

(***************************************************************************)
(* DepthManager.  Its state is the record d of the Map `sprites` (a        *)
(* sequence of entries in insertion order), the children of the managed    *)
(* container (back to front), the set of destroyed display objects and     *)
(* the needsSort flag.  A display object is named by a handle.             *)
(***************************************************************************)
DirtyThreshold == 1

DepthState == [sprites |-> sprites, children |-> children,
               destroyed |-> destroyed, needsSort |-> needsSort]

InSeq(seq, e) == \E i \in 1..Len(seq) : seq[i] = e

IndexOf(seq, e) == CHOOSE i \in 1..Len(seq) : seq[i] = e

Without(seq, e) == SelectSeq(seq, LAMBDA c : c # e)


HasSprite(S0, id) ==
  Only({ (
    \E i \in 1..Len(S) : S[i].id = id
  ) : S \in {S0} })

SpriteIndex(S0, id) ==
  Only({ (
    CHOOSE i \in 1..Len(S) : S[i].id = id
  ) : S \in {S0} })

DeleteSprite(S, id) == SelectSeq(S, LAMBDA e : e.id # id)

\* sprite && !sprite.destroyed && sprite.parent === this.container
IsValidSprite(e0, d0) ==
  Only({ (
    e.sprite \notin d.destroyed /\ InSeq(d.children, e.sprite)
  ) : e \in {e0}, d \in {d0} })

\* An updateSpritePosition that stores the new Y only when it marks the
\* registry dirty.
UpdateSpritePositionIfFar(d0, id, yPosition) ==
  Only({ (
    IF ~HasSprite(d.sprites, id) THEN d
    ELSE
      LET i == SpriteIndex(d.sprites, id)
          oldPosition == d.sprites[i].yPosition
      IN  IF Gt(Abs(Sub(oldPosition, yPosition)), Num(DirtyThreshold))
            THEN [d EXCEPT !.sprites[i].yPosition = yPosition, !.needsSort = TRUE]
            ELSE d
  ) : d \in {d0} })

UpdateSpritePosition(d0, id, yPosition) ==
  Only({ (
    IF ~HasSprite(d.sprites, id) THEN d
    ELSE
      LET i == SpriteIndex(d.sprites, id)
          oldPosition == d.sprites[i].yPosition
      IN  [d EXCEPT !.sprites[i].yPosition = yPosition,
                    !.needsSort = IF Gt(Abs(Sub(oldPosition, yPosition)), Num(DirtyThreshold))
                                    THEN TRUE ELSE @]
  ) : d \in {d0} })

\* Array.prototype.sort with (a, b) => a.yPosition - b.yPosition: a stable
\* sort, here by insertion of each entry behind the entries not above it.
RECURSIVE InsertByY(_, _)
InsertByY(sorted0, e0) ==
  Only({ (
    IF sorted = <<>> THEN <<e>>
    ELSE IF Gt(Sub(sorted[Len(sorted)].yPosition, e.yPosition), Num(0))
      THEN Append(InsertByY(SubSeq(sorted, 1, Len(sorted) - 1), e), sorted[Len(sorted)])
      ELSE Append(sorted, e)
  ) : sorted \in {sorted0}, e \in {e0} })

RECURSIVE SortByY(_)
SortByY(S0) ==
  Only({ (
    IF S = <<>> THEN <<>>
    ELSE InsertByY(SortByY(SubSeq(S, 1, Len(S) - 1)), S[Len(S)])
  ) : S \in {S0} })

\* Container.setChildIndex(child, index), index counted from 0; it throws
\* when the index is out of range or the object is not a child.
SetChildIndexThrows(ch0, h, index) ==
  Only({ (
    ~InSeq(ch, h) \/ index < 0 \/ index >= Len(ch)
  ) : ch \in {ch0} })

SetChildIndex(ch0, h, index) ==
  Only({ (
    LET rest == Without(ch, h)
    IN  SubSeq(rest, 1, index) \o <<h>> \o SubSeq(rest, index + 1, Len(rest))
  ) : ch \in {ch0} })

\* the forEach of sortSprites from entry k of validSprites on
RECURSIVE ReorderChildren(_, _, _)
ReorderChildren(d0, validSprites0, k) ==
  Only({ (
    IF k > Len(validSprites) THEN d
    ELSE
      LET e == validSprites[k]
      IN  IF SetChildIndexThrows(d.children, e.sprite, k - 1)
            THEN ReorderChildren([d EXCEPT !.sprites = DeleteSprite(@, e.id)], validSprites, k + 1)
            ELSE ReorderChildren([d EXCEPT !.children = SetChildIndex(@, e.sprite, k - 1)],
                                 validSprites, k + 1)
  ) : d \in {d0}, validSprites \in {validSprites0} })

\* sortSprites without its last loop, the clean-up of entries whose display
\* object is gone
SortSpritesKeepsStale(d0) ==
  Only({ Only({ ReorderChildren(d, validSprites, 1) :
                validSprites \in { SelectSeq(SortByY(d.sprites),
                                             LAMBDA e : IsValidSprite(e, d)) } }) :
         d \in {d0} })

SortSprites(d0) ==
  Only({ Only({ [reordered EXCEPT
                   !.sprites = SelectSeq(@, LAMBDA e : IsValidSprite(e, reordered))] :
                reordered \in
                  { Only({ ReorderChildren(d, validSprites, 1) :
                           validSprites \in
                             { Only({ SelectSeq(spritesArray, LAMBDA e : IsValidSprite(e, d)) :
                                      spritesArray \in {SortByY(d.sprites)} }) } }) } }) :
         d \in {d0} })

SortSpritesIfNeeded(d0) ==
  Only({ (
    IF d.needsSort THEN [SortSprites(d) EXCEPT !.needsSort = FALSE] ELSE d
  ) : d \in {d0} })

\* registerSprite without its test for an id that is registered already
RegisterSpriteAlwaysAdds(d0, id, h, yPosition, type) ==
  Only({ (
    LET added == IF InSeq(d.children, h) THEN d.children ELSE Append(d.children, h)
    IN  SortSpritesIfNeeded(
          [d EXCEPT !.children = added,
                    !.sprites = Append(@, [id |-> id, sprite |-> h,
                                           yPosition |-> yPosition, type |-> type]),
                    !.needsSort = TRUE])
  ) : d \in {d0} })

\* The display object h is a child of the managed container, of another
\* container or of none; registering moves it into the managed container.
RegisterSprite(d0, id, h, yPosition, type) ==
  Only({ (
    IF HasSprite(d.sprites, id) THEN UpdateSpritePosition(d, id, yPosition)
    ELSE
      LET added == IF InSeq(d.children, h) THEN d.children ELSE Append(d.children, h)
      IN  SortSpritesIfNeeded(
            [d EXCEPT !.children = added,
                      !.sprites = Append(@, [id |-> id, sprite |-> h,
                                             yPosition |-> yPosition, type |-> type]),
                      !.needsSort = TRUE])
  ) : d \in {d0} })

UnregisterSprite(d0, id) ==
  Only({ (
    IF ~HasSprite(d.sprites, id) THEN d
    ELSE [d EXCEPT !.children = Without(@, d.sprites[SpriteIndex(d.sprites, id)].sprite),
                   !.sprites = DeleteSprite(@, id)]
  ) : d \in {d0} })

ForceSortSprites(d) == SortSpritesIfNeeded([d EXCEPT !.needsSort = TRUE])

(***************************************************************************)
(* NPC                                                                     *)
(***************************************************************************)
NPCMoveSpeed == 120

NPCFrameDuration == 300

ArrivalThreshold == 2

\* new NPC(data, sprites), data.position being p
NewNPC(p) ==
  [ x |-> p.x, y |-> p.y,
    dataPosition |-> p,
    isMoving |-> FALSE,
    startPosition |-> p,
    targetPosition |-> p,
    startTime |-> Num(0),
    duration |-> Num(0),
    currentFrame |-> "idle",
    frameStartTime |-> Num(0),
    isWalking |-> FALSE,
    walkableArea |-> <<>> ]

\* NPC.moveTo(targetX, targetY) at time t: the NPC afterwards and the value
\* returned.
NPCMoveTo(n, targetX, targetY, t) ==
  IF ~IsPositionWalkable(targetX, targetY, n.walkableArea)
    THEN [state |-> n, ret |-> FALSE]
  ELSE
    LET currentX == n.x
        currentY == n.y
    IN  IF /\ Lt(Abs(Sub(currentX, targetX)), Num(ArrivalThreshold))
           /\ Lt(Abs(Sub(currentY, targetY)), Num(ArrivalThreshold))
          THEN [state |-> n, ret |-> TRUE]
          ELSE
            LET deltaX == Sub(targetX, currentX)
                deltaY == Sub(targetY, currentY)
                distance == Sqrt(Add(Mul(deltaX, deltaX), Mul(deltaY, deltaY)))
                duration == Mul(Div(distance, Num(NPCMoveSpeed)), Num(MsPerSecond))
            IN  [ state |-> [n EXCEPT !.isMoving = TRUE,
                                      !.startPosition = [x |-> currentX, y |-> currentY],
                                      !.targetPosition = [x |-> targetX, y |-> targetY],
                                      !.startTime = Num(t),
                                      !.duration = duration,
                                      !.isWalking = TRUE,
                                      !.frameStartTime = Num(t)],
                  ret |-> TRUE ]

\* NPC.updateMovement(currentTime), without the position-change callback
NPCUpdateMovement(n, t) ==
  IF ~n.isMoving THEN n
  ELSE
    LET elapsed  == Sub(Num(t), n.startTime)
        progress == Min(Div(elapsed, n.duration), Num(1))
        x == Add(n.startPosition.x, Mul(Sub(n.targetPosition.x, n.startPosition.x), progress))
        y == Add(n.startPosition.y, Mul(Sub(n.targetPosition.y, n.startPosition.y), progress))
        moved == [n EXCEPT !.x = x, !.y = y, !.dataPosition = [x |-> x, y |-> y]]
    IN  IF Ge(progress, Num(1))
          THEN [moved EXCEPT !.isMoving = FALSE, !.isWalking = FALSE, !.currentFrame = "idle"]
          ELSE moved

\* NPC.updateAnimation(currentTime)
NPCUpdateAnimation(n, t) ==
  IF ~n.isWalking
    THEN (IF n.currentFrame \notin {"idle", "talk"} THEN [n EXCEPT !.currentFrame = "idle"] ELSE n)
    ELSE
      LET elapsed == Sub(Num(t), n.frameStartTime)
      IN  IF Ge(elapsed, Num(NPCFrameDuration))
            THEN [n EXCEPT !.currentFrame = IF @ = "walk1" THEN "walk2" ELSE "walk1",
                           !.frameStartTime = Num(t)]
            ELSE n

(***************************************************************************)
(* The movement of the player character and of Maya on the stage           *)
(* "cyberpunk-street", as Game.setupCharacter and StageManager.loadNPCs    *)
(* leave them: both registered with the depth manager, each reporting its  *)
(* position changes to it.                                                 *)
(***************************************************************************)
ClockStep == 600

MaxTime == 1200

CharacterId == "character"

MayaId == "npc-street-vendor"

\* Places the player is sent to: where it starts, a point one unit away,
\* the hotel sign's interaction point and a point off the walkable area.
CharTargets == { Pos(400, 690), Pos(401, 691), Pos(202, 657), Pos(400, 600) }

\* Places Maya is sent to: a point one unit from where she starts, a point
\* two units from it, a point within the reach of moveRandomNPC and a point
\* off the walkable area.
NPCTargets == { Pos(37, 713), Pos(36, 714), Pos(136, 712), Pos(36, 600) }

InitMove ==
  /\ now = 0
  /\ char = [NewCharacterController(CharacterStartPosition) EXCEPT
               !.walkableArea = CyberpunkWalkableArea,
               !.yMovementFactor = SetYMovementFactor(CyberpunkYMovementFactor)]
  /\ npc = [NewNPC(MayaPosition) EXCEPT !.walkableArea = CyberpunkWalkableArea]
  /\ bubble = NewSpeechBubble
  /\ sprites = << [id |-> CharacterId, sprite |-> 1,
                   yPosition |-> CharacterStartPosition.y, type |-> "character"],
                  [id |-> MayaId, sprite |-> 2,
                   yPosition |-> MayaPosition.y, type |-> "npc"] >>
  /\ children = <<1, 2>>
  /\ destroyed = {}
  /\ needsSort = FALSE
  /\ NoDialogue
  /\ NoStage
  /\ op = <<"init">>
  /\ ret = Undefined

SetDepth(d) ==
  /\ sprites' = d.sprites
  /\ children' = d.children
  /\ destroyed' = d.destroyed
  /\ needsSort' = d.needsSort

\* characterController.moveTo(t.x, t.y)
CallCharMoveTo(t) ==
  LET r == CharMoveTo(char, t.x, t.y, now)
  IN  /\ char' = r.state
      /\ ret' = r.ret
      /\ op' = <<"char.moveTo", t>>
      /\ UNCHANGED <<now, npc, bubble, depthVars, dialogueVars, stageVars>>

\* characterController.update(performance.now()); the move callback set by
\* Game.setupCharacter hands the new Y to the depth manager.
CallCharUpdate ==
  LET moved == CharUpdateMovement(char, now)
  IN  /\ char' = CharUpdateAnimation(moved, now)
      /\ SetDepth(IF char.isMoving
                    THEN UpdateSpritePosition(DepthState, CharacterId, moved.y)
                    ELSE DepthState)
      /\ ret' = Undefined
      /\ op' = <<"char.update">>
      /\ UNCHANGED <<now, npc, bubble, dialogueVars, stageVars>>

\* npc.moveTo(t.x, t.y)
CallNPCMoveTo(t) ==
  LET r == NPCMoveTo(npc, t.x, t.y, now)
  IN  /\ npc' = r.state
      /\ ret' = r.ret
      /\ op' = <<"npc.moveTo", t>>
      /\ UNCHANGED <<now, char, bubble, depthVars, dialogueVars, stageVars>>

\* npc.update(performance.now()); the position-change callback set by
\* NPCManager.addNPC hands the new Y to the depth manager.
CallNPCUpdate ==
  LET moved == NPCUpdateMovement(npc, now)
  IN  /\ npc' = NPCUpdateAnimation(moved, now)
      /\ SetDepth(IF npc.isMoving
                    THEN UpdateSpritePosition(DepthState, MayaId, moved.y)
                    ELSE DepthState)
      /\ ret' = Undefined
      /\ op' = <<"npc.update">>
      /\ UNCHANGED <<now, char, bubble, dialogueVars, stageVars>>

\* Time passes.
AdvanceClock ==
  /\ now + ClockStep <= MaxTime
  /\ now' = now + ClockStep
  /\ op' = <<"clock">>
  /\ ret' = Undefined
  /\ UNCHANGED <<char, npc, bubble, depthVars, dialogueVars, stageVars>>

NextMove ==
  \/ \E t \in CharTargets : CallCharMoveTo(t)
  \/ CallCharUpdate
  \/ \E t \in NPCTargets : CallNPCMoveTo(t)
  \/ CallNPCUpdate
  \/ AdvanceClock

SpecMove == InitMove /\ [][NextMove]_vars

(***************************************************************************)
(* Properties of movement                                                  *)
(***************************************************************************)
CharRejects(t) == ~IsPositionWalkable(t.x, t.y, char.walkableArea)

NPCRejects(t) == ~IsPositionWalkable(t.x, t.y, npc.walkableArea)

\* C1: a moveTo whose target fails the entity's walkability check returns
\* false and leaves the entity as it was (position, movement state, the
\* start, target and duration in flight, facing direction, animation state),
\* also when the entity is Moving; for the player character and for an NPC.
MoveToRejectsNonWalkable ==
  [][ /\ (op'[1] = "char.moveTo" /\ CharRejects(op'[2]))
           => (ret' = FALSE /\ char' = char)
      /\ (op'[1] = "npc.moveTo" /\ NPCRejects(op'[2]))
           => (ret' = FALSE /\ npc' = npc) ]_vars

\* The player character, under way between two places, has just been sent
\* to a point off the walkable area and the call returned false.
RejectedWhileMoving ==
  /\ op[1] = "char.moveTo"
  /\ CharRejects(op[2])
  /\ ret = FALSE
  /\ char.isMoving
  /\ char.x # char.startPosition.x
  /\ char.x # char.targetPosition.x

Elapsed(e) == Sub(Num(now), e.startTime)

AtTarget(e) == e.x = e.targetPosition.x /\ e.y = e.targetPosition.y

\* C2: after a tick at which the time elapsed since the accepted moveTo is
\* at least the computed duration (a duration of zero included), the entity
\* stands exactly on the target and is Idle.
TickArrivesAtTarget ==
  /\ (op[1] = "char.update" /\ Ge(Elapsed(char), char.duration))
       => (~char.isMoving /\ AtTarget(char))
  /\ (op[1] = "npc.update" /\ Ge(Elapsed(npc), npc.duration))
       => (~npc.isMoving /\ AtTarget(npc))

Near(e, t) ==
  /\ Lt(Abs(Sub(e.x, t.x)), Num(ArrivalThreshold))
  /\ Lt(Abs(Sub(e.y, t.y)), Num(ArrivalThreshold))

\* C3: a moveTo whose target is walkable and within 2 units of where the
\* entity stands returns true and changes nothing (movement state,
\* position, facing direction, animation state); for the player character
\* and for an NPC.
NearMoveToChangesNothing ==
  [][ /\ (op'[1] = "char.moveTo" /\ ~CharRejects(op'[2]) /\ Near(char, op'[2]))
           => (ret' = TRUE /\ char' = char)
      /\ (op'[1] = "npc.moveTo" /\ ~NPCRejects(op'[2]) /\ Near(npc, op'[2]))
           => (ret' = TRUE /\ npc' = npc) ]_vars

(***************************************************************************)
(* The depth manager on its own, called in any order by its clients, with  *)
(* display objects destroyed behind its back.                              *)
(***************************************************************************)
MaxHandle == 3

MaxY == 2

DepthIds == {CharacterId, MayaId, "key-sprite"}

DepthType(id) ==
  IF id = CharacterId THEN "character" ELSE IF id = MayaId THEN "npc" ELSE "object"

Handles == 1..MaxHandle

DepthYs == {Num(y) : y \in 0..MaxY}

InitDepth ==
  /\ now = 0
  /\ char = NewCharacterController(CharacterStartPosition)
  /\ npc = NewNPC(MayaPosition)
  /\ bubble = NewSpeechBubble
  /\ sprites = <<>>
  /\ children = <<>>
  /\ destroyed = {}
  /\ needsSort = FALSE
  /\ NoDialogue
  /\ NoStage
  /\ op = <<"init">>
  /\ ret = Undefined

\* The display objects a client may hand over for id: the one id is
\* registered with or, display objects being alike, the first live one that
\* no entry holds (every client registers a display object of its own).
FreeHandles ==
  {h \in Handles : h \notin destroyed /\ \A i \in 1..Len(sprites) : sprites[i].sprite # h}

HandleFor(id) ==
  IF HasSprite(sprites, id) THEN {sprites[SpriteIndex(sprites, id)].sprite}
  ELSE {h \in FreeHandles : \A g \in FreeHandles : h <= g}

\* depthManager.registerSprite(id, h, y, type)
CallRegisterSprite(id, y) ==
  \E h \in HandleFor(id) :
    /\ SetDepth(RegisterSprite(DepthState, id, h, y, DepthType(id)))
    /\ op' = <<"registerSprite">>
    /\ ret' = Undefined
    /\ UNCHANGED <<moveVars, dialogueVars, stageVars>>

CallUnregisterSprite(id) ==
  /\ SetDepth(UnregisterSprite(DepthState, id))
  /\ op' = <<"unregisterSprite">>
  /\ ret' = Undefined
  /\ UNCHANGED <<moveVars, dialogueVars, stageVars>>

CallUpdateSpritePosition(id, y) ==
  /\ SetDepth(UpdateSpritePosition(DepthState, id, y))
  /\ op' = <<"updateSpritePosition">>
  /\ ret' = Undefined
  /\ UNCHANGED <<moveVars, dialogueVars, stageVars>>

CallSortSpritesIfNeeded ==
  /\ SetDepth(SortSpritesIfNeeded(DepthState))
  /\ op' = <<"sortSpritesIfNeeded">>
  /\ ret' = Undefined
  /\ UNCHANGED <<moveVars, dialogueVars, stageVars>>

CallSortSprites ==
  /\ SetDepth(SortSprites(DepthState))
  /\ op' = <<"sortSprites">>
  /\ ret' = Undefined
  /\ UNCHANGED <<moveVars, dialogueVars, stageVars>>

CallForceSortSprites ==
  /\ SetDepth(ForceSortSprites(DepthState))
  /\ op' = <<"forceSortSprites">>
  /\ ret' = Undefined
  /\ UNCHANGED <<moveVars, dialogueVars, stageVars>>

\* The owner of a display object destroys it (as NPC.destroy does): the
\* object leaves its parent and is marked destroyed.
DestroySprite(h) ==
  /\ h \notin destroyed
  /\ InSeq(children, h)
  /\ children' = Without(children, h)
  /\ destroyed' = destroyed \cup {h}
  /\ op' = <<"destroy">>
  /\ ret' = Undefined
  /\ UNCHANGED <<moveVars, dialogueVars, stageVars, sprites, needsSort>>

NextDepth ==
  \/ \E id \in DepthIds, y \in DepthYs : CallRegisterSprite(id, y)
  \/ \E id \in DepthIds : CallUnregisterSprite(id)
  \/ \E id \in DepthIds, y \in DepthYs : CallUpdateSpritePosition(id, y)
  \/ CallSortSpritesIfNeeded
  \/ CallSortSprites
  \/ CallForceSortSprites
  \/ \E h \in Handles : DestroySprite(h)

SpecDepth == InitDepth /\ [][NextDepth]_vars

ValidSprites == SelectSeq(sprites, LAMBDA e : IsValidSprite(e, DepthState))

\* The valid entries are drawn in an order that does not decrease in their
\* registered Y: none drawn behind another has the greater Y.
DrawOrderSorted ==
  \A i, j \in 1..Len(ValidSprites) :
    IndexOf(children, ValidSprites[i].sprite) < IndexOf(children, ValidSprites[j].sprite)
      => ~Gt(ValidSprites[i].yPosition, ValidSprites[j].yPosition)

\* C4: after any sequence of registerSprite, updateSpritePosition (steps of
\* any size, runs of steps below the dirty threshold included) and
\* unregisterSprite calls, sortSpritesIfNeeded leaves the valid entries
\* drawn in an order that does not decrease in their registered Y.
SortIfNeededSortsDrawOrder == op[1] = "sortSpritesIfNeeded" => DrawOrderSorted

\* C18: in every state the depth registry holds at most one entry per id
\* and the managed container holds each display object at most once; and
\* registerSprite(id, h, y, type) for an id that is registered, whatever
\* display object h it is handed, changes nothing but that entry's Y: the
\* entries, the objects they are bound to and the container's children stay
\* as they were.
RegistryHoldsEachIdOnce ==
  /\ \A i, j \in 1..Len(sprites) : sprites[i].id = sprites[j].id => i = j
  /\ \A i, j \in 1..Len(children) : children[i] = children[j] => i = j
  /\ \A id \in DepthIds, h \in Handles, y \in DepthYs :
       HasSprite(sprites, id) =>
         LET r == RegisterSprite(DepthState, id, h, y, DepthType(id))
         IN  /\ r.children = children
             /\ r.sprites = [sprites EXCEPT ![SpriteIndex(sprites, id)].yPosition = y]

\* registerSprite has just returned early for a registered id whose Y it
\* moved by more than the dirty threshold: only then does it leave the
\* registry dirty.
ReRegisteredMovedY == op[1] = "registerSprite" /\ needsSort /\ Len(sprites) >= 2

SortPass ==
  \/ op'[1] \in {"sortSprites", "forceSortSprites"}
  \/ op'[1] = "sortSpritesIfNeeded" /\ needsSort

\* C19: a sort pass (sortSprites, forceSortSprites, sortSpritesIfNeeded on
\* a dirty registry) completes and leaves no entry whose display object is
\* destroyed or is not a child of the managed container, and it keeps every
\* entry whose display object is valid.
SortPassPrunesOnlyStale ==
  [][ SortPass =>
        /\ \A i \in 1..Len(sprites') : IsValidSprite(sprites'[i], DepthState')
        /\ \A i \in 1..Len(sprites) :
             IsValidSprite(sprites[i], DepthState) => InSeq(sprites', sprites[i]) ]_vars

\* A sort pass has run after a display object was destroyed, and an entry
\* is left.
SortedWithDestroyedObject ==
  op[1] \in {"sortSprites", "forceSortSprites"} /\ destroyed # {} /\ Len(sprites) >= 1

(***************************************************************************)
(* The dialogue trees.  JakeTree and MayaTree are the two trees            *)
(* Game.initializeDialogueTrees registers; the texts are left out.         *)
(***************************************************************************)
R(id, nextNodeId) ==
  [id |-> id, nextNodeId |-> nextNodeId, conditions |-> <<>>, setFlag |-> <<>>,
   removeItem |-> Undefined, addItem |-> Undefined]

Node(id, responses) == [id |-> id, responses |-> responses, conditions |-> <<>>]

Always == [type |-> "always", key |-> Undefined, value |-> Undefined]

HasItem(key) == [type |-> "inventory", key |-> key, value |-> Undefined]

FlagIs(key, value) == [type |-> "flag", key |-> key, value |-> value]

JakeTree ==
  [ npcId |-> "bartender", startNodeId |-> "jake_greeting", nodes |-> [
    jake_greeting |-> Node("jake_greeting",
      << R("ask_about_city", "jake_city_info"),
         R("order_drink", "jake_drink_order"),
         R("ask_trouble", "jake_trouble"),
         R("leave", "jake_leave_response") >>),
    jake_city_info |-> Node("jake_city_info",
      << R("ask_corpo", "jake_corpo_info"),
         R("ask_gangs", "jake_gang_info"),
         R("back_to_business", "jake_drink_order") >>),
    jake_drink_order |-> Node("jake_drink_order",
      << [R("pay_drink", "jake_drink_paid") EXCEPT !.conditions = <<Always>>],
         R("no_money", "jake_no_money") >>),
    jake_trouble |-> Node("jake_trouble",
      << R("ask_more_trouble", "jake_city_info"),
         R("thanks_advice", "jake_advice_thanks") >>),
    jake_corpo_info |-> Node("jake_corpo_info",
      << R("ask_resistance", "jake_gang_info"),
         R("end_corpo_talk", Undefined) >>),
    jake_gang_info |-> Node("jake_gang_info",
      << R("ask_join", "jake_organize_response"),
         R("end_gang_talk", Undefined) >>),
    jake_organize_response |-> Node("jake_organize_response",
      <<>>),
    jake_no_money |-> Node("jake_no_money",
      <<>>),
    jake_leave_response |-> Node("jake_leave_response",
      <<>>),
    jake_drink_paid |-> Node("jake_drink_paid",
      <<>>),
    jake_advice_thanks |-> Node("jake_advice_thanks",
      <<>>) ] ]

MayaTree ==
  [ npcId |-> "street-vendor", startNodeId |-> "maya_greeting", nodes |-> [
    maya_greeting |-> Node("maya_greeting",
      << R("browse_tech", "maya_tech_catalog"),
         R("ask_corpo", "maya_corpo_warning"),
         [R("ask_about_key", "maya_key_response") EXCEPT !.conditions = <<HasItem("golden-key")>>],
         R("not_buying", "maya_browsing_response") >>),
    maya_tech_catalog |-> Node("maya_tech_catalog",
      << [R("buy_data_chip", "maya_sell_chip") EXCEPT !.conditions = <<Always>>],
         R("ask_jammers", "maya_jammer_info"),
         R("just_looking", Undefined) >>),
    maya_corpo_warning |-> Node("maya_corpo_warning",
      << R("agree_corpo_bad", "maya_alliance"),
         R("defend_corpo", "maya_disagreement"),
         R("neutral_response", "maya_tech_catalog") >>),
    maya_sell_chip |-> Node("maya_sell_chip",
      << [R("pay_chip", Undefined) EXCEPT !.addItem = "data_chip_maya"],
         R("too_expensive", "maya_negotiate") >>),
    maya_alliance |-> Node("maya_alliance",
      << R("want_to_help", "maya_potential_job"),
         R("just_surviving", Undefined) >>),
    maya_potential_job |-> Node("maya_potential_job",
      << [R("will_do", "maya_trust_response") EXCEPT !.setFlag = <<[key |-> "maya_trusts_player", value |-> "true"]>>] >>),
    maya_browsing_response |-> Node("maya_browsing_response",
      <<>>),
    maya_trust_response |-> Node("maya_trust_response",
      <<>>),
    maya_key_response |-> Node("maya_key_response",
      << R("accept_trust", "maya_special_work"),
         R("just_returning_key", "maya_key_thanks") >>),
    maya_special_work |-> Node("maya_special_work",
      <<>>),
    maya_key_thanks |-> Node("maya_key_thanks",
      <<>>) ] ]

(***************************************************************************)
(* A third tree, handed to registerDialogueTree to exercise what the two   *)
(* trees above leave unused: conditions on the start node and on other     *)
(* nodes, flag conditions, removeItem, and a node whose responses may all  *)
(* be gated off.                                                           *)
(***************************************************************************)
ProbeTree(startConditions) ==
  [ npcId |-> "informant", startNodeId |-> "probe_start", nodes |-> [
    probe_start |-> [Node("probe_start",
      << [R("give_key", "probe_locked") EXCEPT
            !.conditions = <<HasItem("golden-key")>>,
            !.removeItem = "golden-key",
            !.setFlag = <<[key |-> "key_returned", value |-> "true"]>>],
         [R("take_chip", "probe_gated") EXCEPT !.addItem = "data_chip_maya"],
         [R("swap_key", "probe_start") EXCEPT
            !.conditions = <<HasItem("golden-key")>>,
            !.removeItem = "golden-key",
            !.addItem = "golden-key"],
         [R("ask_secret", "probe_locked") EXCEPT
            !.conditions = <<FlagIs("key_returned", "true")>>],
         R("peek", "probe_locked"),
         [R("lose_chip", Undefined) EXCEPT !.removeItem = "data_chip_maya"] >>)
      EXCEPT !.conditions = startConditions],
    probe_locked |-> [Node("probe_locked", <<>>)
      EXCEPT !.conditions = <<FlagIs("key_returned", "true")>>],
    probe_gated |-> [Node("probe_gated",
      << [R("show_key", Undefined) EXCEPT !.conditions = <<HasItem("golden-key")>>],
         [R("remind", "probe_start") EXCEPT
            !.conditions = <<FlagIs("key_returned", "true")>>] >>)
      EXCEPT !.conditions = <<HasItem("data_chip_maya")>>] ] ]

StartConditionChoices ==
  { <<>>,
    <<FlagIs("key_returned", "true")>>,
    <<HasItem("golden-key")>>,
    <<Always, HasItem("golden-key")>> }

Registry(trees) == [id \in {t.npcId : t \in trees} |-> CHOOSE t \in trees : t.npcId = id]

NpcIds == {"bartender", "street-vendor", "informant", "stray-cat"}

Items == {"golden-key", "data_chip_maya"}

FlagValues == {"true", "false"}

SeqRange(seq) == {seq[i] : i \in 1..Len(seq)}

\* a response of the node the dialogue stands at, by id
CurrentResponse(responseId) ==
  FindResponse(GetCurrentNode(dialogueTrees, currentState).responses, responseId)

(***************************************************************************)
(* The dialogue manager on its own, called in any order by a client that   *)
(* passes its own inventory Set to chooseResponse and to                   *)
(* getAvailableResponses; items come and go between the calls.             *)
(***************************************************************************)
\* The ids a client passes to chooseResponse: those of the responses of the
\* node the dialogue stands at, an id no tree knows and an id of a response
\* of some other node.
EngineResponseIds ==
  {"no_such_response", "pay_chip"} \cup
    (IF HasCurrentNode(dialogueTrees, currentState)
       THEN {r.id : r \in SeqRange(GetCurrentNode(dialogueTrees, currentState).responses)}
       ELSE {})

InitEngine ==
  /\ NoStage
  /\ now = 0
  /\ char = NewCharacterController(CharacterStartPosition)
  /\ npc = NewNPC(MayaPosition)
  /\ bubble = NewSpeechBubble
  /\ sprites = <<>>
  /\ children = <<>>
  /\ destroyed = {}
  /\ needsSort = FALSE
  /\ \E c \in StartConditionChoices :
       dialogueTrees = Registry({JakeTree, MayaTree, ProbeTree(c)})
  /\ currentState = Inactive
  /\ gameFlags = <<>>
  /\ inventory = {}
  /\ uiResponses = <<>>
  /\ timers = {}
  /\ op = <<"init">>
  /\ ret = Undefined

EngineUnchanged == UNCHANGED <<moveVars, depthVars, stageVars, dialogueTrees, uiResponses, timers>>

\* dialogueManager.startDialogue(npcId, position)
CallStartDialogue(npcId) ==
  LET r == StartDialogue(dialogueTrees, currentState, gameFlags, npcId)
  IN  /\ currentState' = r.state
      /\ ret' = r.ret
      /\ op' = <<"startDialogue", npcId>>
      /\ UNCHANGED <<gameFlags, inventory>>
      /\ EngineUnchanged

\* dialogueManager.chooseResponse(responseId, inventory), the Set passed
\* being the client's own
CallChooseResponse(responseId) ==
  LET r == ChooseResponse(dialogueTrees, currentState, gameFlags, responseId, inventory)
  IN  /\ currentState' = r.state
      /\ gameFlags' = r.flags
      /\ inventory' = r.inventory
      /\ ret' = r.ret
      /\ op' = <<"chooseResponse", responseId, r.accepted>>
      /\ EngineUnchanged

\* dialogueManager.getAvailableResponses(inventory): the ids of the
\* responses returned
CallGetAvailableResponses ==
  LET available == GetAvailableResponses(dialogueTrees, currentState, gameFlags, <<inventory>>)
  IN  /\ ret' = [i \in 1..Len(available) |-> available[i].id]
      /\ op' = <<"getAvailableResponses">>
      /\ UNCHANGED <<currentState, gameFlags, inventory>>
      /\ EngineUnchanged

\* dialogueManager.endDialogue(); op records whether a dialogue was active
CallEndDialogue ==
  /\ currentState' = EndDialogue(currentState)
  /\ ret' = Undefined
  /\ op' = <<"endDialogue", currentState.isActive>>
  /\ UNCHANGED <<gameFlags, inventory>>
  /\ EngineUnchanged

\* dialogueManager.setFlag(key, value)
CallSetFlag(key, value) ==
  /\ gameFlags' = SetFlag(gameFlags, key, value)
  /\ ret' = Undefined
  /\ op' = <<"setFlag", key>>
  /\ UNCHANGED <<currentState, inventory>>
  /\ EngineUnchanged

\* The client's inventory gains or loses an item.
ChangeInventory(item) ==
  /\ inventory' = IF item \in inventory THEN inventory \ {item} ELSE inventory \cup {item}
  /\ ret' = Undefined
  /\ op' = <<"inventory", item>>
  /\ UNCHANGED <<currentState, gameFlags>>
  /\ EngineUnchanged

NextEngine ==
  \/ \E npcId \in NpcIds : CallStartDialogue(npcId)
  \/ \E responseId \in EngineResponseIds : CallChooseResponse(responseId)
  \/ CallGetAvailableResponses
  \/ CallEndDialogue
  \/ \E value \in FlagValues : CallSetFlag("key_returned", value)
  \/ \E item \in Items : ChangeInventory(item)

SpecEngine == InitEngine /\ [][NextEngine]_vars

(***************************************************************************)
(* Properties of the dialogue manager                                      *)
(***************************************************************************)
StartNode(npcId) == dialogueTrees[npcId].nodes[dialogueTrees[npcId].startNodeId]

\* A tree is registered for npcId and the conditions of its start node hold
\* against the flags and the inventory.
StartAllowed(npcId) ==
  /\ npcId \in DOMAIN dialogueTrees
  /\ CheckConditions(StartNode(npcId).conditions, gameFlags, <<inventory>>)

\* C5: startDialogue(p, pos) makes the dialogue active at the start node of
\* p's tree and returns that node if and only if a tree is registered for p
\* and the start node's conditions hold against the current flags and the
\* current inventory; otherwise it returns null and leaves the state and
\* the flags as they were.
StartChecksFlagsAndInventory ==
  [][ op'[1] = "startDialogue" =>
        IF StartAllowed(op'[2])
          THEN /\ ret' = dialogueTrees[op'[2]].startNodeId
               /\ currentState' = [isActive |-> TRUE, npcId |-> op'[2],
                                   currentNodeId |-> dialogueTrees[op'[2]].startNodeId]
          ELSE /\ ret' = Null
               /\ currentState' = currentState
               /\ gameFlags' = gameFlags ]_vars

\* responseId names a response of the current node whose conditions hold
\* against the flags and the inventory.
Accepts(responseId) ==
  /\ HasCurrentNode(dialogueTrees, currentState)
  /\ CurrentResponse(responseId) # <<>>
  /\ CheckConditions(CurrentResponse(responseId)[1].conditions, gameFlags, <<inventory>>)

\* C6: chooseResponse with an id that is no response of the current node,
\* or the id of a response whose conditions do not hold, returns null and
\* changes nothing: the dialogue stays active at the same node, no flag is
\* set, no item is added or removed.
ChooseRejectsInvalid ==
  [][ (/\ op'[1] = "chooseResponse"
       /\ HasCurrentNode(dialogueTrees, currentState)
       /\ ~Accepts(op'[2]))
        => /\ ret' = Null
           /\ currentState' = currentState
           /\ currentState'.isActive
           /\ gameFlags' = gameFlags
           /\ inventory' = inventory ]_vars

\* Maya has just been asked about the key by a player who holds none: the
\* response is one of the node's, its condition fails, and the dialogue
\* stands where it stood.
RejectedGatedResponse ==
  /\ op = <<"chooseResponse", "ask_about_key", FALSE>>
  /\ currentState.isActive
  /\ currentState.currentNodeId = "maya_greeting"
  /\ "golden-key" \notin inventory
  /\ ret = Null

\* C7: after an accepted chooseResponse the dialogue is active at the
\* response's next node, which is returned, if the response names a next
\* node, the tree defines it and its conditions hold; otherwise (no next
\* node named, conditions failing, node not defined) the dialogue is
\* inactive and null is returned.
AcceptedChooseMovesOrEnds ==
  [][ (op'[1] = "chooseResponse" /\ Accepts(op'[2])) =>
        LET response == CurrentResponse(op'[2])[1]
            nodes == dialogueTrees[currentState.npcId].nodes
            next == response.nextNodeId
        IN  IF /\ next # Undefined
               /\ next \in DOMAIN nodes
               /\ CheckConditions(nodes[next].conditions, gameFlags', <<inventory'>>)
              THEN /\ currentState' = [isActive |-> TRUE, npcId |-> currentState.npcId,
                                       currentNodeId |-> next]
                   /\ ret' = next
              ELSE /\ currentState' = Inactive
                   /\ ret' = Null ]_vars

\* Maya has just been asked about jammers: the response names the node
\* maya_jammer_info, which her tree does not define, and the dialogue ended.
ChoseUndefinedNextNode ==
  /\ op = <<"chooseResponse", "ask_jammers", TRUE>>
  /\ "maya_jammer_info" \notin DOMAIN dialogueTrees["street-vendor"].nodes
  /\ ~currentState.isActive
  /\ ret = Null

\* C10: after an accepted response with the effect addItem(x), an
\* inventory condition on x evaluated against the same Set holds; after one
\* with the effect removeItem(x) and no addItem(x), it does not.
EffectsShowInPassedSet ==
  [][ (op'[1] = "chooseResponse" /\ Accepts(op'[2])) =>
        LET response == CurrentResponse(op'[2])[1]
        IN  /\ response.addItem # Undefined =>
                 CheckConditions(<<HasItem(response.addItem)>>, gameFlags', <<inventory'>>)
            /\ (response.removeItem # Undefined /\ response.addItem # response.removeItem) =>
                 ~CheckConditions(<<HasItem(response.removeItem)>>, gameFlags', <<inventory'>>)
    ]_vars

\* A response that removes the golden key and adds it again has just been
\* taken, and the key is in the Set.
SwappedKeyIsHeld ==
  /\ op = <<"chooseResponse", "swap_key", TRUE>>
  /\ "golden-key" \in inventory

\* C26: an accepted chooseResponse leaves the flags with the response's
\* flag set, and the inventory with the response's removeItem taken out
\* first and its addItem put in afterwards, so that a response removing and
\* adding the same id leaves the item present; the next node is entered
\* exactly when its conditions hold against the flags and the inventory as
\* the effects left them.
EffectsOrderedBeforeNextNode ==
  [][ (op'[1] = "chooseResponse" /\ Accepts(op'[2])) =>
        LET response == CurrentResponse(op'[2])[1]
            nodes == dialogueTrees[currentState.npcId].nodes
            removed == IF response.removeItem # Undefined
                         THEN inventory \ {response.removeItem} ELSE inventory
            added == IF response.addItem # Undefined
                       THEN removed \cup {response.addItem} ELSE removed
            flagged == IF response.setFlag # <<>>
                         THEN [k \in DOMAIN gameFlags \cup {response.setFlag[1].key} |->
                                 IF k = response.setFlag[1].key
                                   THEN response.setFlag[1].value ELSE gameFlags[k]]
                         ELSE gameFlags
        IN  /\ gameFlags' = flagged
            /\ inventory' = added
            /\ (response.addItem # Undefined /\ response.addItem = response.removeItem)
                  => response.addItem \in inventory'
            /\ (ret' # Null) <=>
                  /\ response.nextNodeId # Undefined
                  /\ response.nextNodeId \in DOMAIN nodes
                  /\ CheckConditions(nodes[response.nextNodeId].conditions, flagged, <<added>>)
    ]_vars

\* The key has just been given back by a response that also sets
\* key_returned, and the dialogue stands at probe_locked, the node whose
\* condition is that flag.
GaveKeyAndEnteredLockedNode ==
  /\ op = <<"chooseResponse", "give_key", TRUE>>
  /\ ret = "probe_locked"
  /\ currentState.isActive
  /\ currentState.currentNodeId = "probe_locked"
  /\ "golden-key" \notin inventory

\* C27: endDialogue leaves the engine Inactive whatever state it was in,
\* with no tree, node or participant kept, and touches neither flags nor
\* inventory; on an engine already Inactive it changes nothing.  While the
\* engine is Inactive getCurrentNode returns no node and
\* getAvailableResponses returns no response, and only a startDialogue that
\* returns a node makes it active again.
EndDialogueReturnsToInactive ==
  [][ /\ op'[1] = "endDialogue" =>
           /\ currentState' = Inactive
           /\ gameFlags' = gameFlags
           /\ inventory' = inventory
           /\ ~currentState.isActive => currentState' = currentState
      /\ ~currentState'.isActive =>
           /\ ~HasCurrentNode(dialogueTrees', currentState')
           /\ GetAvailableResponses(dialogueTrees', currentState', gameFlags', <<inventory'>>) = <<>>
           /\ op'[1] = "getAvailableResponses" => ret' = <<>>
           /\ op'[1] = "chooseResponse" => ret' = Null
      /\ (~currentState.isActive /\ currentState'.isActive) =>
           /\ op'[1] = "startDialogue"
           /\ ret' # Null
    ]_vars

\* endDialogue has just been called on a dialogue that was active, and the
\* engine holds neither participant nor node.
EndedActiveDialogue ==
  /\ op = <<"endDialogue", TRUE>>
  /\ ~currentState.isActive
  /\ currentState.npcId = Undefined
  /\ currentState.currentNodeId = Undefined

(***************************************************************************)
(* The dialogue as Game runs it: a talk starts a tree, setTimeout          *)
(* callbacks show the responses once the NPC's line has been displayed and *)
(* process a response once the player's line has been displayed.  While a  *)
(* dialogue is active Game hands every click to the dialogue UI, so no     *)
(* talk starts and nothing is picked up.  The trees registered are the two *)
(* of Game.initializeDialogueTrees and the probe tree, which stands for    *)
(* any further tree handed to registerDialogueTree.                        *)
(***************************************************************************)
ResponseIds(responses) == [i \in 1..Len(responses) |-> responses[i].id]

\* The setTimeout callback of showDialogueNode that offers every response
\* of the node, available or not.
DisplayCallbackUnfiltered(trees, state, flags, items) ==
  LET all == IF HasCurrentNode(trees, state)
               THEN GetCurrentNode(trees, state).responses ELSE <<>>
  IN  IF all = <<>>
        THEN [state |-> EndDialogue(state), uiResponses |-> <<>>]
        ELSE [state |-> state, uiResponses |-> ResponseIds(all)]

\* The setTimeout callback of showDialogueNode, the player holding items:
\* the dialogue state and the responses the dialogue UI offers afterwards.
DisplayCallback(trees, state, flags, items) ==
  LET inventorySet == items                  \* a copy of the items' ids
      availableResponses == GetAvailableResponses(trees, state, flags, <<inventorySet>>)
  IN  IF availableResponses = <<>>
        THEN [state |-> EndDialogue(state), uiResponses |-> <<>>]      \* Game.endDialogue
        ELSE [state |-> state,
              uiResponses |-> IF state.isActive THEN ResponseIds(availableResponses)
                              ELSE uiResponses]

InitGame ==
  /\ NoStage
  /\ now = 0
  /\ char = NewCharacterController(CharacterStartPosition)
  /\ npc = NewNPC(MayaPosition)
  /\ bubble = NewSpeechBubble
  /\ sprites = <<>>
  /\ children = <<>>
  /\ destroyed = {}
  /\ needsSort = FALSE
  /\ dialogueTrees = Registry({JakeTree, MayaTree, ProbeTree(<<>>)})
  /\ currentState = Inactive
  /\ gameFlags = <<>>
  /\ inventory = {}
  /\ uiResponses = <<>>
  /\ timers = {}
  /\ op = <<"init">>
  /\ ret = Undefined

GameUnchanged == UNCHANGED <<moveVars, depthVars, stageVars, dialogueTrees>>

\* Game.handleNPCInteraction(npc, "talk"): startDialogueTree, and on
\* success showDialogueNode, which sets the display timer.
TalkTo(npcId) ==
  /\ ~currentState.isActive
  /\ LET r == StartDialogue(dialogueTrees, currentState, gameFlags, npcId)
     IN  /\ currentState' = r.state
         /\ timers' = IF r.ret # Null THEN timers \cup {<<"display">>} ELSE timers
         /\ ret' = (r.ret # Null)
  /\ op' = <<"talk", npcId>>
  /\ UNCHANGED <<gameFlags, inventory, uiResponses>>
  /\ GameUnchanged

\* The display timer set by showDialogueNode runs out.
DisplayTimerFires ==
  /\ <<"display">> \in timers
  /\ LET r == DisplayCallback(dialogueTrees, currentState, gameFlags, inventory)
     IN  /\ currentState' = r.state
         /\ uiResponses' = r.uiResponses
  /\ timers' = timers \ {<<"display">>}
  /\ op' = <<"displayTimer", currentState.currentNodeId>>
  /\ ret' = Undefined
  /\ UNCHANGED <<gameFlags, inventory>>
  /\ GameUnchanged

\* Game.processDialogueResponse(responseId): chooseResponse on a Set built
\* from the inventory's items, then showDialogueNode or Game.endDialogue.
\* What it leaves behind, the Set being dropped when it returns.
ProcessDialogueResponse(responseId) ==
  LET inventorySet == inventory
      r == ChooseResponse(dialogueTrees, currentState, gameFlags, responseId, inventorySet)
  IN  /\ currentState' = IF r.ret # Null THEN r.state ELSE EndDialogue(r.state)
      /\ gameFlags' = r.flags
      /\ uiResponses' = IF r.ret # Null THEN uiResponses ELSE <<>>
      /\ ret' = r.ret
      /\ op' = <<"processDialogueResponse", responseId, r.accepted>>
      /\ UNCHANGED inventory

\* The player picks a response the dialogue UI offers:
\* Game.handleDialogueResponse hides the responses, shows the player's line
\* and sets the timer that processes the response.
SelectResponse(responseId) ==
  /\ responseId \in SeqRange(uiResponses)
  /\ IF ~currentState.isActive
       THEN UNCHANGED <<dialogueVars, ret>> /\ op' = <<"select", responseId>>
       ELSE IF /\ HasCurrentNode(dialogueTrees, currentState)
               /\ CurrentResponse(responseId) # <<>>
         THEN /\ uiResponses' = <<>>
              /\ timers' = timers \cup {<<"process", responseId>>}
              /\ op' = <<"select", responseId>>
              /\ ret' = Undefined
              /\ UNCHANGED <<currentState, gameFlags, inventory, dialogueTrees>>
         ELSE /\ ProcessDialogueResponse(responseId)
              /\ UNCHANGED <<timers, dialogueTrees>>
  /\ UNCHANGED <<moveVars, depthVars, stageVars>>

\* The timer set by handleDialogueResponse runs out.
ProcessTimerFires(responseId) ==
  /\ <<"process", responseId>> \in timers
  /\ ProcessDialogueResponse(responseId)
  /\ timers' = (timers \ {<<"process", responseId>>})
                 \cup (IF ret' # Null THEN {<<"display">>} ELSE {})
  /\ GameUnchanged

\* Game.handleGetAction on the golden key: the key joins the inventory.
PickUpKey ==
  /\ ~currentState.isActive
  /\ "golden-key" \notin inventory
  /\ inventory' = inventory \cup {"golden-key"}
  /\ op' = <<"get", "golden-key">>
  /\ ret' = Undefined
  /\ UNCHANGED <<currentState, gameFlags, uiResponses, timers>>
  /\ GameUnchanged

NextGame ==
  \/ \E npcId \in NpcIds : TalkTo(npcId)
  \/ DisplayTimerFires
  \/ \E responseId \in SeqRange(uiResponses) : SelectResponse(responseId)
  \/ \E t \in timers : t[1] = "process" /\ ProcessTimerFires(t[2])
  \/ PickUpKey

SpecGame == InitGame /\ [][NextGame]_vars

(***************************************************************************)
(* Properties of the dialogue as Game runs it                              *)
(***************************************************************************)
\* C8: when the display of a node completes and none of the node's
\* responses is available (the node has none, or the conditions gate every
\* one off), the dialogue becomes inactive with no response chosen: flags
\* and inventory are as before; otherwise the available responses are
\* offered and the dialogue stays active at the node.
DisplayEndsOrOffers ==
  [][ op'[1] = "displayTimer" =>
        LET available ==
              GetAvailableResponses(dialogueTrees, currentState, gameFlags, <<inventory>>)
        IN  /\ gameFlags' = gameFlags
            /\ inventory' = inventory
            /\ IF available = <<>>
                 THEN ~currentState'.isActive /\ uiResponses' = <<>>
                 ELSE /\ currentState' = currentState
                      /\ currentState'.isActive
                      /\ uiResponses' = ResponseIds(available) ]_vars

\* The display of probe_gated, a node with two responses, has just
\* completed for a player who holds no key and has returned none: both are
\* gated off and the dialogue is over.
GatedNodeEndedDialogue ==
  /\ op = <<"displayTimer", "probe_gated">>
  /\ "golden-key" \notin inventory
  /\ GetFlag(gameFlags, "key_returned") # "true"
  /\ ~currentState.isActive
  /\ uiResponses = <<>>

\* C9: what a dialogue's effects change outlasts the dialogue: the flag an
\* accepted response sets is set, the item it adds is in the player's
\* inventory and the item it removes is not, no flag is ever lost, and the
\* end of a dialogue leaves the flags as they are.
DialogueEffectsReachPlayer ==
  [][ /\ (op'[1] = "processDialogueResponse" /\ Accepts(op'[2])) =>
           LET response == CurrentResponse(op'[2])[1]
           IN  /\ response.setFlag # <<>> =>
                    GetFlag(gameFlags', response.setFlag[1].key) = response.setFlag[1].value
               /\ response.addItem # Undefined => response.addItem \in inventory'
               /\ (response.removeItem # Undefined /\ response.addItem # response.removeItem)
                    => response.removeItem \notin inventory'
      /\ \A k \in DOMAIN gameFlags : k \in DOMAIN gameFlags'
      /\ op'[1] = "displayTimer" => gameFlags' = gameFlags ]_vars


(***************************************************************************)
(* The stages.  StageCatalog and InitialTransitions are what               *)
(* StageManager.initializeStages defines, with the fields the model reads; *)
(* an optional field that is absent is the empty sequence.                 *)
(***************************************************************************)
\* An InteractiveObjectData; polygon is << >> when none is given.  The
\* rectangles of the street's objects are products like 30 * (768 / 200),
\* taken here as the exact quotients.
ObjectData(id, x, y, width, height, defaultAction, polygon) ==
  [ id |-> id, position |-> [x |-> x, y |-> y], width |-> width, height |-> height,
    defaultAction |-> defaultAction, polygon |-> polygon ]

TestIndoorWalkableArea ==
  << Pos(336, 613), Pos(899, 613), Pos(899, 772), Pos(227, 772), Pos(336, 613) >>

StageCatalog ==
  ( "cyberpunk-street" :>
      [ id |-> "cyberpunk-street",
        backgroundAssetKey |-> "cyberpunk",
        walkableArea |-> CyberpunkWalkableArea,
        objects |-> <<
          ObjectData("hotel-sign", Num(64), <<576, 5>>, Num(192), <<768, 5>>, "look",
                     << Pos(164, 57), Pos(222, 69), Pos(226, 404), Pos(166, 394) >>),
          ObjectData("bar-sign", Num(768), <<864, 5>>, Num(128), Num(96), "look",
                     << Pos(655, 404), Pos(755, 356), Pos(750, 454), Pos(658, 483) >>),
          ObjectData("building-entrance", Num(256), <<1536, 5>>, Num(96), <<1152, 5>>, "open",
                     << Pos(58, 450), Pos(124, 470), Pos(124, 634), Pos(58, 650) >>),
          ObjectData("cryptic-door", Num(64), <<576, 5>>, Num(192), <<768, 5>>, "open",
                     << Pos(870, 431), Pos(947, 415), Pos(947, 670), Pos(870, 655) >>),
          ObjectData("city-in-distance", Num(64), <<576, 5>>, Num(192), <<768, 5>>, "walk",
                     << Pos(419, 464), Pos(552, 464), Pos(552, 582), Pos(419, 582) >>),
          ObjectData("bar-door", Num(64), <<576, 5>>, Num(192), <<768, 5>>, "walk",
                     << Pos(720, 534), Pos(746, 536), Pos(746, 637), Pos(720, 633) >>),
          ObjectData("golden-key", Num(500), Num(640), Num(48), Num(24), "get", << >>) >>,
        npcs |-> << [id |-> "bartender", position |-> Pos(756, 659),
                     description |-> "A gruff bartender with cybernetic implants. He's seen it all.",
                     defaultAction |-> "talk", interactionPoint |-> << Pos(681, 667) >>],
                    [id |-> "street-vendor", position |-> MayaPosition,
                     description |-> "A street vendor selling data chips and tech components.",
                     defaultAction |-> "talk", interactionPoint |-> << Pos(145, 703) >>] >>,
        characterStartPosition |-> CharacterStartPosition,
        keyPosition |-> << Pos(500, 640) >>,
        interactionPoints |-> ( "hotel-sign" :> Pos(202, 657) @@ "bar-sign" :> Pos(689, 656)
                                @@ "building-entrance" :> Pos(108, 686)
                                @@ "cryptic-door" :> Pos(896, 713)
                                @@ "city-in-distance" :> Pos(470, 616) ),
        perspectiveScale |-> << [minY |-> Num(600), maxY |-> Num(713),
                                 minScale |-> <<25, 36>>, maxScale |-> <<25, 18>>] >>,
        perspectiveMovement |-> << [yMovementFactor |-> CyberpunkYMovementFactor] >> ] )
  @@
  ( "test-indoor" :>
      [ id |-> "test-indoor",
        backgroundAssetKey |-> "mechstore",
        walkableArea |-> TestIndoorWalkableArea,
        objects |-> <<
          ObjectData("exit-door", Num(50), Num(400), Num(100), Num(150), "open",
                     << Pos(856, 258), Pos(923, 258), Pos(923, 638), Pos(856, 599) >>),
          ObjectData("stool-small", Num(500), Num(650), Num(64), Num(64), "look",
                     << Pos(554, 595), Pos(655, 595), Pos(652, 678), Pos(554, 678) >>) >>,
        npcs |-> << >>,
        characterStartPosition |-> Pos(863, 628),
        keyPosition |-> << >>,
        interactionPoints |-> ( "exit-door" :> Pos(850, 620) @@ "stool-small" :> Pos(500, 680) ),
        perspectiveScale |-> << [minY |-> Num(613), maxY |-> Num(772),
                                 minScale |-> <<35, 36>>, maxScale |-> <<35, 36>>] >>,
        perspectiveMovement |-> << [yMovementFactor |-> Num(1)] >> ] )

\* A stage handed to addStage whose background is not among the assets
RooftopStage ==
  [ id |-> "rooftop",
    backgroundAssetKey |-> "rooftop",
    walkableArea |-> TestIndoorWalkableArea,
    objects |-> << >>,
    npcs |-> << >>,
    characterStartPosition |-> Pos(863, 628),
    keyPosition |-> << >>,
    interactionPoints |-> << >>,
    perspectiveScale |-> << >>,
    perspectiveMovement |-> << [yMovementFactor |-> Num(1)] >> ]

\* A stage handed to addStage that configures no perspectiveMovement
AnnexStage ==
  [ id |-> "annex",
    backgroundAssetKey |-> "mechstore",
    walkableArea |-> TestIndoorWalkableArea,
    objects |-> << >>,
    npcs |-> << >>,
    characterStartPosition |-> Pos(863, 628),
    keyPosition |-> << >>,
    interactionPoints |-> << >>,
    perspectiveScale |-> << >>,
    perspectiveMovement |-> << >> ]

\* A stage handed to addStage whose yMovementFactor, 1.5, is above the range
LoftStage ==
  [ id |-> "loft",
    backgroundAssetKey |-> "mechstore",
    walkableArea |-> TestIndoorWalkableArea,
    objects |-> << >>,
    npcs |-> << >>,
    characterStartPosition |-> Pos(863, 628),
    keyPosition |-> << >>,
    interactionPoints |-> << >>,
    perspectiveScale |-> << >>,
    perspectiveMovement |-> << [yMovementFactor |-> <<3, 2>>] >> ]

InitialTransitions ==
  << [ fromStageId |-> "cyberpunk-street", toStageId |-> "test-indoor",
       triggerObjectId |-> "building-entrance", targetPosition |-> << Pos(863, 628) >> ],
     [ fromStageId |-> "test-indoor", toStageId |-> "cyberpunk-street",
       triggerObjectId |-> "exit-door", targetPosition |-> << Pos(104, 675) >> ] >>

\* StageOverlayAssets.getAllOverlayAssets(): a fresh list at every call
AllOverlayAssets ==
  << [ id |-> "building-entrance-open-door", objectId |-> "building-entrance",
       stageName |-> "cyberpunk-street", assetKey |-> "building_entrance_open",
       position |-> Pos(58, 634), zIndexType |-> "background", visible |-> FALSE,
       triggerAction |-> "open", assetType |-> "polygon" ],
     [ id |-> "mechstore-stool", objectId |-> "stool-small",
       stageName |-> "test-indoor", assetKey |-> "stool_small",
       position |-> Pos(500, 700), zIndexType |-> "inline", visible |-> TRUE,
       triggerAction |-> Undefined, assetType |-> "png" ] >>

GetStageOverlayAssets(stageId) ==
  SelectSeq(AllOverlayAssets, LAMBDA asset : asset.stageName = stageId)

\* The assets AssetManager.loadAllAssets stores: those that loaded as textures.
AssetNames == {"cyberpunk", "mechstore"}

(***************************************************************************)
(* StageManager, with the ObjectManager, NPCManager, StageOverlayManager   *)
(* and DepthManager it drives.  Their state is the record w, which the     *)
(* operators of DepthManager take for their d.  A display object is a      *)
(* handle; the player character's sprite is handle 1, and a new display    *)
(* object gets the least handle nothing refers to any more.                *)
(***************************************************************************)
CharacterHandle == 1

World ==
  [ sprites |-> sprites, children |-> children, destroyed |-> destroyed,
    needsSort |-> needsSort, stages |-> stages, transitions |-> transitions,
    currentStage |-> currentStage, backgroundSprite |-> backgroundSprite,
    keySprite |-> keySprite, removedObjects |-> removedObjects,
    loadedAssets |-> loadedAssets, objects |-> objects,
    hoveredObject |-> hoveredObject, npcs |-> npcs, overlays |-> overlays ]

Referenced(w) ==
  {CharacterHandle, w.backgroundSprite, w.keySprite}
    \cup {w.children[i] : i \in 1..Len(w.children)}
    \cup {w.sprites[i].sprite : i \in 1..Len(w.sprites)}
    \cup {w.npcs[id].sprite : id \in DOMAIN w.npcs}
    \cup {w.overlays[id].container : id \in DOMAIN w.overlays}

\* new Sprite(...), new KeySprite(), new Container()
NewHandle(w) ==
  Only({ CHOOSE h \in 1..(Cardinality(used) + 1) :
           h \notin used /\ \A g \in 1..(h - 1) : g \in used :
         used \in {Referenced(w)} })

\* displayObject.destroy(), which takes the object out of its parent
DestroyObject(w, h) ==
  [w EXCEPT !.children = Without(@, h), !.destroyed = @ \cup {h}]

SetWorld(w0) ==
  \E w \in {w0} :
  /\ SetDepth([w EXCEPT !.destroyed = @ \cap Referenced(w)])
  /\ stages' = w.stages
  /\ transitions' = w.transitions
  /\ currentStage' = w.currentStage
  /\ backgroundSprite' = w.backgroundSprite
  /\ keySprite' = w.keySprite
  /\ removedObjects' = w.removedObjects
  /\ loadedAssets' = w.loadedAssets
  /\ objects' = w.objects
  /\ hoveredObject' = w.hoveredObject
  /\ npcs' = w.npcs
  /\ overlays' = w.overlays

FindTransition(T, fromStageId, triggerObjectId) ==
  LET found == SelectSeq(T, LAMBDA t : t.fromStageId = fromStageId
                                        /\ t.triggerObjectId = triggerObjectId)
  IN  IF found = <<>> THEN <<>> ELSE <<found[1]>>

\* markObjectAsRemoved that keeps one stage's ids only, the stage it is
\* called for
MarkObjectAsRemovedPerStage(removed, stageId, objectId) ==
  {pair \in removed : pair[1] = stageId} \cup {<<stageId, objectId>>}

MarkObjectAsRemoved(removed, stageId, objectId) == removed \cup {<<stageId, objectId>>}

IsObjectRemoved(removed, stageId, objectId) == <<stageId, objectId>> \in removed


\* NPCManager.clearAllNPCs(): every NPC destroys its sprite
RECURSIVE ClearAllNPCs(_)
ClearAllNPCs(w0) ==
  Only({ IF DOMAIN w.npcs = {} THEN [w EXCEPT !.npcs = <<>>]
         ELSE Only({ ClearAllNPCs([DestroyObject(w, w.npcs[id].sprite) EXCEPT
                                     !.npcs = [n \in DOMAIN w.npcs \ {id} |-> w.npcs[n]]]) :
                     id \in {CHOOSE n \in DOMAIN w.npcs : TRUE} }) :
         w \in {w0} })

\* StageOverlayManager.clearAll(): every overlay destroys its container
RECURSIVE ClearAllOverlays(_)
ClearAllOverlays(w0) ==
  Only({ IF DOMAIN w.overlays = {} THEN [w EXCEPT !.overlays = <<>>]
         ELSE Only({ ClearAllOverlays([DestroyObject(w, w.overlays[id].container) EXCEPT
                                         !.overlays = [o \in DOMAIN w.overlays \ {id} |->
                                                         w.overlays[o]]]) :
                     id \in {CHOOSE o \in DOMAIN w.overlays : TRUE} }) :
         w \in {w0} })

\* depthManager.unregisterSprite(id) for every id of ids, as the loops of
\* cleanupCurrentStage and loadNPCs call it
RECURSIVE UnregisterAll(_, _)
UnregisterAll(w0, ids0) ==
  Only({ IF ids = {} THEN w
         ELSE Only({ UnregisterAll(UnregisterSprite(w, id), ids \ {id}) :
                     id \in {CHOOSE i \in ids : TRUE} }) :
         w \in {w0}, ids \in {ids0} })

\* cleanupCurrentStage, the background sprite
CleanupBackground(w0) ==
  Only({ IF w.backgroundSprite # 0
           THEN [DestroyObject(UnregisterSprite(w, "background"), w.backgroundSprite)
                   EXCEPT !.backgroundSprite = 0]
           ELSE w :
         w \in {w0} })

\* cleanupCurrentStage, the key sprite once it is unregistered: only a key
\* sprite that still has a parent is destroyed and forgotten
DestroyParentedKeySprite(w0) ==
  Only({ IF w.keySprite # 0 /\ InSeq(w.children, w.keySprite)
           THEN [DestroyObject(w, w.keySprite) EXCEPT !.keySprite = 0]
           ELSE w :
         w \in {w0} })

\* cleanupCurrentStage, the key sprite
CleanupKeySprite(w0) ==
  Only({ IF w.keySprite # 0
           THEN DestroyParentedKeySprite(UnregisterSprite(w, "key-sprite"))
           ELSE w :
         w \in {w0} })

\* cleanupCurrentStage, the depth entries of the current stage's overlays
UnregisterStageOverlays(w0) ==
  Only({ IF w.currentStage # Undefined
           THEN Only({ UnregisterAll(w, {"overlay-" \o assets[k].id : k \in 1..Len(assets)}) :
                       assets \in {GetStageOverlayAssets(w.currentStage)} })
           ELSE w :
         w \in {w0} })

CleanupCurrentStage(w) ==
  ClearAllOverlays(UnregisterStageOverlays(ClearAllNPCs(CleanupKeySprite(CleanupBackground(w)))))

\* loadBackground(stage, parentContainer): the state afterwards and the
\* value returned
LoadBackground(w0, stage) ==
  Only({ IF stage.backgroundAssetKey \notin w.loadedAssets THEN [w |-> w, ret |-> FALSE]
         ELSE Only({ [ w |-> RegisterSprite([w EXCEPT !.backgroundSprite = h,
                                                      !.destroyed = @ \ {h}],
                                            "background", h, Num(-1000), "object"),
                       ret |-> TRUE ] :
                     h \in {NewHandle(w)} }) :
         w \in {w0} })

(***************************************************************************)
(* ObjectManager.  objects is the Map from id to InteractiveObject in      *)
(* insertion order; an InteractiveObject is its data, its isHovered flag   *)
(* and ref, which tells one instance from another.  hoveredObject names an *)
(* instance by id and ref; the instance may have left the Map.             *)
(***************************************************************************)
ObjectIds(O) == {O[i].id : i \in 1..Len(O)}

ObjectIndex(O, id) ==
  IF id \in ObjectIds(O) THEN CHOOSE i \in 1..Len(O) : O[i].id = id ELSE 0

\* new InteractiveObject(objectData): the least ref no instance in the Map
\* and not the hovered instance has
NewObjectRef(w) ==
  Only({ CHOOSE r \in 1..(Cardinality(used) + 1) :
           r \notin used /\ \A q \in 1..(r - 1) : q \in used :
         used \in {{w.objects[i].ref : i \in 1..Len(w.objects)}
                    \cup {w.hoveredObject[i].ref : i \in 1..Len(w.hoveredObject)}} })

\* objectManager.addObject(objectData): Map.set keeps the place of a key
\* that is there already
AddObject(w0, objectData) ==
  Only({ [w EXCEPT !.objects =
            IF objectData.id \in ObjectIds(@)
              THEN [@ EXCEPT ![ObjectIndex(@, objectData.id)] =
                               [isHovered |-> FALSE, ref |-> r] @@ objectData]
              ELSE Append(@, [isHovered |-> FALSE, ref |-> r] @@ objectData)] :
         w \in {w0}, r \in {NewObjectRef(w0)} })

\* objectManager.removeObject(id): the manager afterwards
RemoveObject(w, id) ==
  [w EXCEPT !.objects = SelectSeq(@, LAMBDA o : o.id # id)]

\* InteractiveObject.containsPoint(x, y)
ContainsPoint(object, x, y) ==
  IF Len(object.polygon) >= 3
    THEN IsPointInPolygon(x, y, object.polygon)
    ELSE /\ Ge(x, object.position.x)
         /\ Ge(Add(object.position.x, object.width), x)
         /\ Ge(y, object.position.y)
         /\ Ge(Add(object.position.y, object.height), y)

\* objectManager.getObjectAtPosition(x, y): << >> or the object, the last
\* of the Map that contains the point
GetObjectAtPosition(O, x, y) ==
  Only({ IF hits = {} THEN << >>
         ELSE << O[CHOOSE i \in hits : \A j \in hits : j <= i] >> :
         hits \in {{i \in 1..Len(O) : ContainsPoint(O[i], x, y)}} })

\* this.hoveredObject.setHovered(hovered), on the instance with that ref
SetHovered(O, ref, hovered) ==
  [i \in 1..Len(O) |-> IF O[i].ref = ref THEN [O[i] EXCEPT !.isHovered = hovered] ELSE O[i]]

\* objectManager.updateHover(position)
UpdateHover(w0, position) ==
  Only({ Only({ Only({ [ w2 EXCEPT !.hoveredObject =
                           IF new = <<>> THEN <<>>
                           ELSE <<[id |-> new[1].id, ref |-> new[1].ref]>> ] :
                       w2 \in {IF new # <<>> /\ (w.hoveredObject = <<>>
                                                  \/ w.hoveredObject[1].ref # new[1].ref)
                                 THEN [w1 EXCEPT !.objects = SetHovered(@, new[1].ref, TRUE)]
                                 ELSE w1} }) :
                w1 \in {IF w.hoveredObject # <<>>
                             /\ (new = <<>> \/ w.hoveredObject[1].ref # new[1].ref)
                          THEN [w EXCEPT !.objects = SetHovered(@, w.hoveredObject[1].ref, FALSE)]
                          ELSE w} }) :
         w \in {w0}, new \in {GetObjectAtPosition(w0.objects, position.x, position.y)} })

\* objectManager.clearHover()
ClearHover(w) ==
  IF w.hoveredObject # <<>>
    THEN [w EXCEPT !.objects = SetHovered(@, w.hoveredObject[1].ref, FALSE),
                   !.hoveredObject = <<>>]
    ELSE w

\* the first loop of loadObjects: removeObject for every object there is
RECURSIVE RemoveObjects(_, _)
RemoveObjects(w0, ids0) ==
  IF ids0 = {} THEN w0
  ELSE Only({ RemoveObjects(RemoveObject(w0, id), ids0 \ {id}) :
              id \in {CHOOSE i \in ids0 : TRUE} })

\* the second loop of loadObjects with no look at the removed objects
RECURSIVE AddStageObjectsUnfiltered(_, _, _)
AddStageObjectsUnfiltered(w0, stage, k) ==
  IF k > Len(stage.objects) THEN w0
  ELSE Only({ AddStageObjectsUnfiltered(w, stage, k + 1) :
              w \in {AddObject(w0, stage.objects[k])} })

\* the second loop of loadObjects from object k on
RECURSIVE AddStageObjects(_, _, _)
AddStageObjects(w0, stage, k) ==
  IF k > Len(stage.objects) THEN w0
  ELSE Only({ AddStageObjects(w, stage, k + 1) :
              w \in {IF ~IsObjectRemoved(w0.removedObjects, stage.id, stage.objects[k].id)
                       THEN AddObject(w0, stage.objects[k]) ELSE w0} })

\* loadObjects that adds every object of the stage, removed or not
LoadObjectsUnfiltered(w, stage) ==
  AddStageObjectsUnfiltered(RemoveObjects(w, ObjectIds(w.objects)), stage, 1)

LoadObjects(w, stage) ==
  AddStageObjects(RemoveObjects(w, ObjectIds(w.objects)), stage, 1)

\* A loadKeySprite that puts the key in place whether or not it was taken
LoadKeySpriteAlways(w0, stage) ==
  Only({ IF stage.keyPosition = <<>> THEN w
         ELSE Only({ RegisterSprite([w EXCEPT !.keySprite = h, !.destroyed = @ \ {h}],
                                    "key-sprite", h, stage.keyPosition[1].y, "object") :
                     h \in {NewHandle(w)} }) :
         w \in {w0} })

LoadKeySprite(w0, stage) ==
  Only({ IF stage.keyPosition = <<>> THEN w
         ELSE IF IsObjectRemoved(w.removedObjects, stage.id, "golden-key") THEN w
         ELSE Only({ RegisterSprite([w EXCEPT !.keySprite = h, !.destroyed = @ \ {h}],
                                    "key-sprite", h, stage.keyPosition[1].y, "object") :
                     h \in {NewHandle(w)} }) :
         w \in {w0} })

\* NPCManager.addNPC(npcData, sprites) with the sprite h: the NPC keeps the
\* catalog's npcData, entry k of the stage stageId, as its data
AddNPC(w, stageId, k, npcData, h) ==
  [w EXCEPT !.npcs = [id \in DOMAIN @ \cup {npcData.id} |->
                        IF id = npcData.id
                          THEN [sprite |-> h, data |-> <<stageId, k>>]
                                 @@ NewNPC(npcData.position)
                          ELSE @[id]],
            !.destroyed = @ \ {h}]

\* the loop of loadNPCs over stage.npcs from NPC k on: addNPC, then
\* registerSprite
RECURSIVE AddStageNPCs(_, _, _)
AddStageNPCs(w0, stage, k) ==
  Only({ IF k > Len(stage.npcs) THEN w
         ELSE IF stage.npcs[k].id \in DOMAIN w.npcs THEN AddStageNPCs(w, stage, k + 1)
         ELSE Only({ AddStageNPCs(RegisterSprite(AddNPC(w, stage.id, k, stage.npcs[k], h),
                                                 "npc-" \o stage.npcs[k].id, h,
                                                 stage.npcs[k].position.y, "npc"),
                                  stage, k + 1) :
                     h \in {NewHandle(w)} }) :
         w \in {w0} })

\* npcManager.setWalkableArea(stage.walkableArea)
SetNPCWalkableArea(w, walkableArea) ==
  [w EXCEPT !.npcs = [id \in DOMAIN @ |-> [@[id] EXCEPT !.walkableArea = walkableArea]]]

LoadNPCs(w0, stage) ==
  Only({ ForceSortSprites(
           SetNPCWalkableArea(
             AddStageNPCs(ClearAllNPCs(UnregisterAll(w, {"npc-" \o id : id \in DOMAIN w.npcs})),
                          stage, 1),
             stage.walkableArea)) :
         w \in {w0} })

\* StageOverlayManager.addOverlay(a, texture) with the container h
AddOverlay(w, a, h) ==
  [w EXCEPT !.overlays = [id \in DOMAIN @ \cup {a.id} |->
                            IF id = a.id
                              THEN [objectId |-> a.objectId, triggerAction |-> a.triggerAction,
                                    container |-> h, visible |-> a.visible]
                              ELSE @[id]],
            !.destroyed = @ \ {h}]

\* the first loop of loadStageOverlays from asset k on: the texture is made
\* (polygon) or loaded (png, which succeeds when the asset is loaded already
\* and otherwise as pngLoads says), then addOverlay
RECURSIVE AddOverlays(_, _, _, _)
AddOverlays(w0, assets, k, pngLoads) ==
  Only({ IF k > Len(assets) THEN w
         ELSE IF assets[k].assetType # "png"
           THEN IF assets[k].id \in DOMAIN w.overlays
                  THEN AddOverlays(w, assets, k + 1, pngLoads)
                  ELSE AddOverlays(AddOverlay(w, assets[k], NewHandle(w)),
                                   assets, k + 1, pngLoads)
         ELSE IF ~(assets[k].assetKey \in w.loadedAssets \/ pngLoads)
           THEN AddOverlays(w, assets, k + 1, pngLoads)
         ELSE IF assets[k].id \in DOMAIN w.overlays
           THEN AddOverlays([w EXCEPT !.loadedAssets = @ \cup {assets[k].assetKey}],
                            assets, k + 1, pngLoads)
         ELSE AddOverlays(AddOverlay([w EXCEPT !.loadedAssets = @ \cup {assets[k].assetKey}],
                                     assets[k], NewHandle(w)),
                          assets, k + 1, pngLoads) :
         w \in {w0} })

\* the Y under which the second loop of loadStageOverlays registers asset a
OverlayYPosition(a, backgroundCount, foregroundCount) ==
  CASE a.zIndexType = "background" -> Num(-500 - backgroundCount)
    [] a.zIndexType = "inline" -> a.position.y
    [] OTHER -> Num(10000 + foregroundCount)

\* the second loop of loadStageOverlays from asset k on
RECURSIVE RegisterOverlays(_, _, _, _, _)
RegisterOverlays(w0, assets, k, backgroundCount, foregroundCount) ==
  Only({ IF k > Len(assets) THEN w
         ELSE IF assets[k].id \notin DOMAIN w.overlays
           THEN RegisterOverlays(w, assets, k + 1, backgroundCount, foregroundCount)
         ELSE RegisterOverlays(
                RegisterSprite(w, "overlay-" \o assets[k].id, w.overlays[assets[k].id].container,
                               OverlayYPosition(assets[k], backgroundCount, foregroundCount),
                               "object"),
                assets, k + 1,
                IF assets[k].zIndexType = "background"
                  THEN backgroundCount + 1 ELSE backgroundCount,
                IF assets[k].zIndexType = "foreground"
                  THEN foregroundCount + 1 ELSE foregroundCount) :
         w \in {w0} })

LoadStageOverlays(w, stage, pngLoads) ==
  Only({ RegisterOverlays(AddOverlays(w, assets, 1, pngLoads), assets, 1, 0, 0) :
         assets \in {GetStageOverlayAssets(stage.id)} })

\* loadStage once the background is in place
LoadStageContent(w, stage, pngLoads) ==
  [ LoadStageOverlays(
      Only({ IF stage.npcs # <<>> THEN LoadNPCs(withKey, stage) ELSE withKey :
             withKey \in {LoadKeySprite(LoadObjects(w, stage), stage)} }),
      stage, pngLoads)
    EXCEPT !.currentStage = stage.id ]

\* loadStage(stageId, parentContainer): the state afterwards and the value
\* returned.  The depth manager, the NPC manager and the renderer are set,
\* as Game.initializeStages sets them before it loads the first stage.
LoadStage(w0, stageId, pngLoads) ==
  Only({ IF stageId \notin DOMAIN w.stages THEN [w |-> w, ret |-> FALSE]
         ELSE Only({ IF ~background.ret THEN [w |-> background.w, ret |-> FALSE]
                     ELSE [ w |-> LoadStageContent(background.w, w.stages[stageId], pngLoads),
                            ret |-> TRUE ] :
                     background \in {LoadBackground(CleanupCurrentStage(w),
                                                    w.stages[stageId])} }) :
         w \in {w0} })

\* transitionToStage that hands back the stage's start position whatever
\* target position it is given
TransitionToStageAtStart(w0, toStageId, targetPosition, pngLoads) ==
  Only({ IF toStageId \notin DOMAIN w.stages
           THEN [w |-> w, success |-> FALSE, stage |-> <<>>, characterPosition |-> <<>>]
         ELSE Only({ IF ~loaded.ret
                       THEN [ w |-> loaded.w, success |-> FALSE, stage |-> <<>>,
                              characterPosition |-> <<>> ]
                       ELSE [ w |-> loaded.w, success |-> TRUE, stage |-> <<toStageId>>,
                              characterPosition |->
                                <<w.stages[toStageId].characterStartPosition>> ] :
                     loaded \in {LoadStage(w, toStageId, pngLoads)} }) :
         w \in {w0} })

\* transitionToStage(toStageId, parentContainer, targetPosition): the state
\* afterwards and the record returned; targetPosition, stage and
\* characterPosition are <<>> when undefined.
TransitionToStage(w0, toStageId, targetPosition, pngLoads) ==
  Only({ IF toStageId \notin DOMAIN w.stages
           THEN [w |-> w, success |-> FALSE, stage |-> <<>>, characterPosition |-> <<>>]
         ELSE Only({ IF ~loaded.ret
                       THEN [ w |-> loaded.w, success |-> FALSE, stage |-> <<>>,
                              characterPosition |-> <<>> ]
                       ELSE [ w |-> loaded.w, success |-> TRUE, stage |-> <<toStageId>>,
                              characterPosition |->
                                IF targetPosition # <<>> THEN targetPosition
                                ELSE <<w.stages[toStageId].characterStartPosition>> ] :
                     loaded \in {LoadStage(w, toStageId, pngLoads)} }) :
         w \in {w0} })

\* removeKeySprite()
RemoveKeySprite(w0) ==
  Only({ IF w.keySprite = 0 THEN w
         ELSE [DestroyObject(UnregisterSprite(w, "key-sprite"), w.keySprite)
                 EXCEPT !.keySprite = 0] :
         w \in {w0} })


\* StageOverlayManager.getOverlayByObjectAndAction(objectId, action): the
\* id of the overlay in a sequence, or <<>>
GetOverlayByObjectAndAction(w, objectId, action) ==
  LET found == {id \in DOMAIN w.overlays : /\ w.overlays[id].objectId = objectId
                                           /\ w.overlays[id].triggerAction = action}
  IN  IF found = {} THEN <<>> ELSE <<CHOOSE id \in found : TRUE>>

\* triggerOverlay(objectId, action): StageOverlay.toggle on the overlay found
TriggerOverlay(w, objectId, action) ==
  Only({ IF overlay = <<>> THEN w
         ELSE [w EXCEPT !.overlays[overlay[1]].visible = ~@] :
         overlay \in {GetOverlayByObjectAndAction(w, objectId, action)} })

(***************************************************************************)
(* Game: the handlers that drive the stage manager.  Their state is the    *)
(* record g of the world w, the character controller, the inventory, the   *)
(* speech shown and what transitionToStage returned, if it was called.     *)
(***************************************************************************)
MaxSlots == 10

DoorClosedSpeech == "The door is closed. I need to open it first."

\* ActionResponseSystem.getResponse(objectId, action) for the objects and
\* actions of the model: the text in a sequence, or <<>>
GetResponse(objectId, action) ==
  CASE objectId = "building-entrance" /\ action = "open" -> <<"">>
    [] objectId = "building-entrance" /\ action = "walk" ->
         <<"I step through the entrance into the building.">>
    [] objectId = "building-entrance" /\ action = "get" ->
         <<"I can't take the entire building.">>
    [] objectId = "golden-key" /\ action = "get" -> <<"I pick up the golden key.">>
    [] objectId = "golden-key" /\ action = "open" -> <<"I need to pick up the key first.">>
    [] objectId = "exit-door" /\ action = "open" ->
         <<"I open the door and step back onto the street.">>
    [] objectId = "exit-door" /\ action = "get" -> <<"I can't take the door with me.">>
    [] OTHER -> <<>>

HandleGetAction(g0, objectId) ==
  Only({ IF objectId = "golden-key" /\ g.w.keySprite # 0 /\ Cardinality(g.inventory) < MaxSlots
           THEN [g EXCEPT !.inventory = @ \cup {"golden-key"},
                          !.w = [RemoveObject(RemoveKeySprite(@), "golden-key") EXCEPT
                                   !.removedObjects =
                                      IF g.w.currentStage # Undefined
                                        THEN MarkObjectAsRemoved(@, g.w.currentStage, "golden-key")
                                        ELSE @]]
           ELSE g :
         g \in {g0} })

\* handleStageTransition once transitionToStage has returned result with
\* success: the character is put on the new stage
PlaceCharacter(g, result) ==
  [g EXCEPT
     !.result = "true",
     !.w = ForceSortSprites(UpdateSpritePosition(result.w, CharacterId,
                                                 result.characterPosition[1].y)),
     !.char = [@ EXCEPT
                 !.x = result.characterPosition[1].x,
                 !.y = result.characterPosition[1].y,
                 !.walkableArea = result.w.stages[result.stage[1]].walkableArea,
                 !.interactionPoints =
                    IF result.w.stages[result.stage[1]].interactionPoints # <<>>
                      THEN result.w.stages[result.stage[1]].interactionPoints ELSE @,
                 !.yMovementFactor =
                    IF result.w.stages[result.stage[1]].perspectiveMovement # <<>>
                      THEN SetYMovementFactor(
                             result.w.stages[result.stage[1]].perspectiveMovement[1].yMovementFactor)
                      ELSE @]]

HandleStageTransition(g0, transition, pngLoads) ==
  Only({ IF ~result.success \/ result.stage = <<>> \/ result.characterPosition = <<>>
           THEN [g EXCEPT !.w = result.w, !.result = "false"]
           ELSE PlaceCharacter(g, result) :
         g \in {g0},
         result \in {TransitionToStage(g0.w, transition.toStageId, transition.targetPosition,
                                       pngLoads)} })

\* executePendingAction() past the stage transitions: the response is
\* spoken, then the action is carried out
RespondToAction(g0, action, objectId) ==
  Only({ IF response = <<>>
           THEN IF action = "walk" THEN g
                \* the fallback text names the object, here by its id
                ELSE [g EXCEPT !.speech = "I can't " \o action \o " the " \o objectId]
         ELSE IF action = "get" /\ objectId = "golden-key"
           THEN HandleGetAction([g EXCEPT !.speech = IF response[1] # "" THEN response[1]
                                                     ELSE @],
                                objectId)
         ELSE IF action = "open" /\ objectId = "building-entrance"
           THEN [g EXCEPT !.speech = IF response[1] # "" THEN response[1] ELSE @,
                          !.w = TriggerOverlay(@, objectId, action)]
         ELSE [g EXCEPT !.speech = IF response[1] # "" THEN response[1] ELSE @] :
         g \in {g0}, response \in {GetResponse(objectId, action)} })

\* executePendingAction() without the test of the entrance's door
ExecutePendingActionUngated(g0, action, objectId, pngLoads) ==
  Only({ IF transition = <<>> THEN RespondToAction(g, action, objectId)
         ELSE HandleStageTransition(g, transition[1], pngLoads) :
         g \in {g0},
         transition \in {IF g0.w.currentStage # Undefined /\ action = "walk"
                           THEN FindTransition(g0.w.transitions, g0.w.currentStage, objectId)
                           ELSE <<>>} })

\* executePendingAction() for the pending action on objectId
ExecutePendingAction(g0, action, objectId, pngLoads) ==
  Only({ IF transition = <<>> THEN RespondToAction(g, action, objectId)
         ELSE IF /\ objectId = "building-entrance"
                 /\ (doorOverlay = <<>> \/ ~g.w.overlays[doorOverlay[1]].visible)
           THEN [g EXCEPT !.speech = DoorClosedSpeech]
         ELSE HandleStageTransition(g, transition[1], pngLoads) :
         g \in {g0},
         transition \in {IF g0.w.currentStage # Undefined /\ action = "walk"
                           THEN FindTransition(g0.w.transitions, g0.w.currentStage, objectId)
                           ELSE <<>>},
         doorOverlay \in {GetOverlayByObjectAndAction(g0.w, objectId, "open")} })

(***************************************************************************)
(* The stage load as the event loop runs it.  loadStage runs on, through   *)
(* the awaits that need no input, until AssetManager.loadAsset awaits      *)
(* Assets.load for a PNG that is not in the cache; everything up to there  *)
(* happens before the next frame or click.  The load in flight is the      *)
(* record of what the suspended calls hold: the action and the object of   *)
(* executePendingAction, the stage and the target position of the          *)
(* transition, and the index of the overlay asset awaited.                 *)
(***************************************************************************)

\* The index of the first overlay asset of the stage whose PNG has to be
\* fetched, or 0
FirstUncachedPNG(w, assets) ==
  LET waits == { k \in 1..Len(assets) : /\ assets[k].assetType = "png"
                                        /\ assets[k].assetKey \notin w.loadedAssets }
  IN  IF waits = {} THEN 0 ELSE CHOOSE k \in waits : \A j \in waits : k <= j

\* loadStage once the background is in place, up to the first PNG it has
\* to wait for: awaited is that asset's index in a sequence, or <<>> when
\* the load has run to its end
LoadStageContentToAwait(w, stage) ==
  Only({ Only({ IF k = 0
                  THEN [ w |-> [LoadStageOverlays(content, stage, TRUE)
                                  EXCEPT !.currentStage = stage.id],
                         ret |-> TRUE, awaited |-> << >> ]
                  ELSE [ w |-> AddOverlays(content, SubSeq(assets, 1, k - 1), 1, TRUE),
                         ret |-> TRUE, awaited |-> <<k>> ] :
                k \in {FirstUncachedPNG(content, assets)} }) :
         content \in {Only({ IF stage.npcs # <<>> THEN LoadNPCs(withKey, stage) ELSE withKey :
                             withKey \in {LoadKeySprite(LoadObjects(w, stage), stage)} })},
         assets \in {GetStageOverlayAssets(stage.id)} })

\* loadStage(stageId, parentContainer) up to the first PNG it has to wait for
LoadStageToAwait(w0, stageId) ==
  Only({ IF stageId \notin DOMAIN w.stages
           THEN [w |-> w, ret |-> FALSE, awaited |-> << >>]
         ELSE Only({ IF ~background.ret
                       THEN [w |-> background.w, ret |-> FALSE, awaited |-> << >>]
                       ELSE LoadStageContentToAwait(background.w, w.stages[stageId]) :
                     background \in {LoadBackground(CleanupCurrentStage(w),
                                                    w.stages[stageId])} }) :
         w \in {w0} })

\* executePendingAction() up to the await of a stage load: the game
\* afterwards and, in a sequence, the load left in flight
ExecutePendingActionToAwait(g0, action, objectId) ==
  Only({ IF transition = <<>> THEN [g |-> RespondToAction(g, action, objectId), suspended |-> << >>]
         ELSE IF /\ objectId = "building-entrance"
                 /\ (doorOverlay = <<>> \/ ~g.w.overlays[doorOverlay[1]].visible)
           THEN [g |-> [g EXCEPT !.speech = DoorClosedSpeech], suspended |-> << >>]
         ELSE Only({
           IF loaded.awaited = << >>
             THEN [g |-> HandleStageTransition(g, transition[1], TRUE), suspended |-> << >>]
             ELSE [ g |-> [g EXCEPT !.w = loaded.w],
                    suspended |-> << [ action |-> action, objectId |-> objectId,
                                       toStageId |-> transition[1].toStageId,
                                       targetPosition |-> transition[1].targetPosition,
                                       awaited |-> loaded.awaited[1] ] >> ] :
           loaded \in {LoadStageToAwait(g.w, transition[1].toStageId)} }) :
         g \in {g0},
         transition \in {IF g0.w.currentStage # Undefined /\ action = "walk"
                           THEN FindTransition(g0.w.transitions, g0.w.currentStage, objectId)
                           ELSE <<>>},
         doorOverlay \in {GetOverlayByObjectAndAction(g0.w, objectId, "open")} })

\* What follows the await of the load in flight l, whose PNG arrived or
\* failed as pngLoads says: the rest of loadStageOverlays and of loadStage,
\* then transitionToStage's result and handleStageTransition's use of it
ResumeStageTransition(g0, l, pngLoads) ==
  Only({ PlaceCharacter(g, [ w |-> [ RegisterOverlays(
                                       AddOverlays(g.w, assets, l.awaited, pngLoads),
                                       assets, 1, 0, 0)
                                     EXCEPT !.currentStage = l.toStageId ],
                             success |-> TRUE, stage |-> <<l.toStageId>>,
                             characterPosition |->
                               IF l.targetPosition # <<>> THEN l.targetPosition
                               ELSE <<g.w.stages[l.toStageId].characterStartPosition>> ]) :
         g \in {g0}, assets \in {GetStageOverlayAssets(l.toStageId)} })

\* The loads in flight L resumed in the order in which they were started
RECURSIVE ResumeStageTransitions(_, _, _)
ResumeStageTransitions(g, L, pngLoads) ==
  IF L = << >> THEN g
  ELSE ResumeStageTransitions(ResumeStageTransition(g, Head(L), pngLoads), Tail(L), pngLoads)

\* NPC.update(t) of the NPC id: an NPC that moves writes its position into
\* its data, which is the catalog's npcData, and hands its Y to the depth
\* manager
UpdateNPC(w, id, t) ==
  Only({ IF w.npcs[id].isMoving
           THEN UpdateSpritePosition(
                  [w EXCEPT !.npcs[id] = NPCUpdateAnimation(moved, t),
                            !.stages[w.npcs[id].data[1]].npcs[w.npcs[id].data[2]].position =
                               moved.dataPosition],
                  "npc-" \o id, moved.y)
           ELSE [w EXCEPT !.npcs[id] = NPCUpdateAnimation(moved, t)] :
         moved \in {NPCUpdateMovement(w.npcs[id], t)} })

\* npcManager.update(t) for the NPCs ids
RECURSIVE UpdateNPCs(_, _, _)
UpdateNPCs(w0, ids0, t) ==
  Only({ IF ids = {} THEN w
         ELSE Only({ UpdateNPCs(UpdateNPC(w, id, t), ids \ {id}, t) :
                     id \in {CHOOSE i \in ids : TRUE} }) :
         w \in {w0}, ids \in {ids0} })

(***************************************************************************)
(* The game after Game.initialize: the first stage loaded, the character   *)
(* set up on it, the test items in the inventory.  The stage manager is    *)
(* called by the game's handlers and directly.  A frame comes WalkTime     *)
(* after the walks under way were started, when each of them has ended.    *)
(***************************************************************************)
WalkTime == 10000

MaxTransitions == 3

StageIds == {"cyberpunk-street", "test-indoor", "rooftop", "no-such-stage"}

\* The pairs handed to markObjectAsRemoved: the key on its own stage and
\* the same id on the stage that does not define it
RemovablePairs ==
  { <<"cyberpunk-street", "golden-key">>, <<"test-indoor", "golden-key">> }

\* Transitions handed to addTransition: a second one for the street's
\* building entrance and one without a target position.
AddedTransitions ==
  { [ fromStageId |-> "cyberpunk-street", toStageId |-> "rooftop",
      triggerObjectId |-> "building-entrance", targetPosition |-> << Pos(863, 628) >> ],
    [ fromStageId |-> "test-indoor", toStageId |-> "cyberpunk-street",
      triggerObjectId |-> "stool-small", targetPosition |-> << >> ] }

\* The stages handed to addStage
AddedStages == {RooftopStage}

\* What the player clicks with which action selected
Clicks ==
  { <<"walk", "building-entrance">>, <<"open", "building-entrance">>,
    <<"walk", "exit-door">>, <<"walk", "stool-small">>, <<"get", "golden-key">> }

\* The keys pressed: "m" sends Maya, the street vendor, to (500, 650)
Keys == {"m"}


\* InteractiveObject.getCenter(): the centre of the polygon's bounding box,
\* or of the rectangle
GetCenter(object) ==
  IF Len(object.polygon) >= 3
    THEN LET xs == {object.polygon[i].x : i \in 1..Len(object.polygon)}
             ys == {object.polygon[i].y : i \in 1..Len(object.polygon)}
             minX == CHOOSE a \in xs : \A b \in xs : ~Gt(a, b)
             maxX == CHOOSE a \in xs : \A b \in xs : ~Lt(a, b)
             minY == CHOOSE a \in ys : \A b \in ys : ~Gt(a, b)
             maxY == CHOOSE a \in ys : \A b \in ys : ~Lt(a, b)
         IN  [ x |-> Add(minX, Div(Sub(maxX, minX), Num(2))),
               y |-> Add(minY, Div(Sub(maxY, minY), Num(2))) ]
    ELSE [ x |-> Add(object.position.x, Div(object.width, Num(2))),
           y |-> Add(object.position.y, Div(object.height, Num(2))) ]

\* Math.cos and Math.sin of 0, 30, ..., 330 degrees, the square root of 3
\* taken to three places
Cos30 ==
  << Num(1), <<433, 500>>, <<1, 2>>, Num(0), <<-1, 2>>, <<-433, 500>>,
     Num(-1), <<-433, 500>>, <<-1, 2>>, Num(0), <<1, 2>>, <<433, 500>> >>

Sin30 ==
  << Num(0), <<1, 2>>, <<433, 500>>, Num(1), <<433, 500>>, <<1, 2>>,
     Num(0), <<-1, 2>>, <<-433, 500>>, Num(-1), <<-433, 500>>, <<-1, 2>> >>

\* The point tested at the angle 30 * (step - 1) on the circle of radius
\* 10 * ring around (x, y)
RingPoint(x, y, ring, step) ==
  [ x |-> Add(x, Mul(Cos30[step], Num(10 * ring))),
    y |-> Add(y, Mul(Sin30[step], Num(10 * ring))) ]

\* The first walkable point on the circle of radius 10 * ring around (x, y)
\* from the angle 30 * (step - 1) on, or << >>
RECURSIVE FirstWalkableOnRing(_, _, _, _, _)
FirstWalkableOnRing(c, x, y, ring, step) ==
  IF step > 12 THEN << >>
  ELSE Only({ IF IsPositionWalkable(test.x, test.y, c.walkableArea) THEN << test >>
              ELSE FirstWalkableOnRing(c, x, y, ring, step + 1) :
              test \in {RingPoint(x, y, ring, step)} })

\* findNearestWalkablePoint(x, y) from the circle of radius 10 * ring on:
\* << >> or the first walkable point met
RECURSIVE FindNearestWalkablePoint(_, _, _, _)
FindNearestWalkablePoint(c, x, y, ring) ==
  IF ring > 10 THEN << >>
  ELSE Only({ IF found # << >> THEN found
              ELSE FindNearestWalkablePoint(c, x, y, ring + 1) :
              found \in {FirstWalkableOnRing(c, x, y, ring, 1)} })

\* CharacterController.moveToObject(object): to the object's interaction
\* point, or without one to the walkable point nearest its centre
MoveToObject(c, object, t) ==
  IF object.id \in DOMAIN c.interactionPoints
    THEN CharMoveTo(c, c.interactionPoints[object.id].x, c.interactionPoints[object.id].y, t)
  ELSE Only({ IF walkablePoint = << >> THEN [state |-> c, ret |-> FALSE]
              ELSE CharMoveTo(c, walkablePoint[1].x, walkablePoint[1].y, t) :
              walkablePoint \in {Only({ FindNearestWalkablePoint(c, centre.x, centre.y, 1) :
                                        centre \in {GetCenter(object)} })} })

InitStage ==
  LET constructed ==
        [ sprites |-> <<>>, children |-> <<>>, destroyed |-> {}, needsSort |-> FALSE,
          stages |-> StageCatalog,
          transitions |-> InitialTransitions,
          currentStage |-> Undefined, backgroundSprite |-> 0, keySprite |-> 0,
          removedObjects |-> {}, loadedAssets |-> AssetNames, objects |-> <<>>,
          hoveredObject |-> <<>>, npcs |-> <<>>, overlays |-> <<>> ]
      loaded == LoadStage(constructed, "cyberpunk-street", FALSE).w
      stage == StageCatalog["cyberpunk-street"]
  IN  \E w \in {RegisterSprite(loaded, CharacterId, CharacterHandle,
                              stage.characterStartPosition.y, "character")} :
      /\ now = 0
      /\ char = [interactionPoints |-> stage.interactionPoints]
                  @@ [NewCharacterController(stage.characterStartPosition) EXCEPT
                        !.walkableArea = stage.walkableArea,
                        !.yMovementFactor =
                           IF stage.perspectiveMovement # <<>>
                             THEN SetYMovementFactor(stage.perspectiveMovement[1].yMovementFactor)
                             ELSE @]
      /\ npc = NewNPC(MayaPosition)
      /\ bubble = NewSpeechBubble
      /\ sprites = w.sprites
      /\ children = w.children
      /\ destroyed = w.destroyed
      /\ needsSort = w.needsSort
      /\ stages = w.stages
      /\ transitions = w.transitions
      /\ currentStage = w.currentStage
      /\ backgroundSprite = w.backgroundSprite
      /\ keySprite = w.keySprite
      /\ removedObjects = w.removedObjects
      /\ loadedAssets = w.loadedAssets
      /\ objects = w.objects
      /\ hoveredObject = w.hoveredObject
      /\ npcs = w.npcs
      /\ overlays = w.overlays
      /\ pendingAction = <<>>
      /\ speech = Undefined
      /\ wasCharacterMoving = FALSE
      /\ pendingNPCAction = <<>>
      /\ pendingItemObjectAction = <<>>
      /\ selectedInventoryItem = <<>>
      /\ loading = <<>>
      /\ dialogueTrees = Registry({JakeTree, MayaTree})
      /\ currentState = Inactive
      /\ gameFlags = <<>>
      /\ inventory = {"keycard", "credits", "datapad"}
      /\ uiResponses = <<>>
      /\ timers = {}
      /\ op = <<"init">>
      /\ ret = Undefined

(***************************************************************************)
(* Clicks on the canvas.  An NPC is hit inside the bounds of its sprite:   *)
(* the texture, anchored at its bottom centre, at the scale the last frame *)
(* gave it, which is the scale of the NPC's present Y under the current    *)
(* stage's perspective config.  The texture is 144 pixels high at the base *)
(* scale of 3; its width is SpriteGenerator's.                             *)
(***************************************************************************)
NPCTextureWidth == 32

NPCTextureHeight == 48

BaseScale == 3

\* PerspectiveScaler.calculateScaleFactor(yPosition), config being << >>
\* or the perspective config set
CalculateScaleFactor(config, yPosition) ==
  IF config = << >> THEN Num(BaseScale)
  ELSE LET clampedY == Max(config[1].minY, Min(config[1].maxY, yPosition))
           t == Div(Sub(clampedY, config[1].minY), Sub(config[1].maxY, config[1].minY))
           perspectiveScale ==
             Add(config[1].minScale, Mul(t, Sub(config[1].maxScale, config[1].minScale)))
       IN  Mul(Num(BaseScale), perspectiveScale)

\* The config Game hands the scaler: the perspectiveScale of the stage it
\* has set up or moved to
PerspectiveConfig(w) ==
  IF w.currentStage \in DOMAIN w.stages
    THEN w.stages[w.currentStage].perspectiveScale ELSE << >>

\* NPC.getBounds(): sprite.getBounds() of a sprite anchored at (0.5, 1.0)
NPCGetBounds(n, config) ==
  LET scale == CalculateScaleFactor(config, n.y)
      width == Mul(Num(NPCTextureWidth), scale)
      height == Mul(Num(NPCTextureHeight), scale)
  IN  [ x |-> Sub(n.x, Div(width, Num(2))), y |-> Sub(n.y, height),
        width |-> width, height |-> height ]

\* NPC.containsPoint(x, y)
NPCContainsPoint(n, config, x, y) ==
  \E bounds \in {NPCGetBounds(n, config)} :
    /\ Ge(x, bounds.x)
    /\ Ge(Add(bounds.x, bounds.width), x)
    /\ Ge(y, bounds.y)
    /\ Ge(Add(bounds.y, bounds.height), y)

\* npcManager.getNPCAtPosition(x, y): << >> or the id of the NPC, the last
\* of the Map that contains the point.  The Map holds the NPCs in the
\* order of the stage's list, which is the order loadNPCs added them in.
GetNPCAtPosition(w, x, y) ==
  Only({ IF hits = {} THEN << >>
         ELSE << CHOOSE id \in hits : \A other \in hits : w.npcs[other].data[2] <= w.npcs[id].data[2] >> :
         hits \in {{id \in DOMAIN w.npcs : NPCContainsPoint(w.npcs[id], PerspectiveConfig(w), x, y)}} })

\* The npcData the NPC id was made from
NPCData(w, id) == w.stages[w.npcs[id].data[1]].npcs[w.npcs[id].data[2]]

\* NPC.getInteractionPoint()
NPCGetInteractionPoint(w, id) ==
  IF NPCData(w, id).interactionPoint # << >> THEN NPCData(w, id).interactionPoint[1]
  ELSE [x |-> w.npcs[id].x, y |-> Add(w.npcs[id].y, Num(30))]

\* NPC.getDefaultAction()
NPCGetDefaultAction(w, id) == NPCData(w, id).defaultAction

\* What a click may change: the controller and the three queued actions
ClickState ==
  [ char |-> char, pendingAction |-> pendingAction, pendingNPCAction |-> pendingNPCAction,
    pendingItemObjectAction |-> pendingItemObjectAction ]

\* Game.handleNPCClick(npc), the action bar set to action
HandleNPCClick(k, w, npcId, action, t) ==
  Only({ IF moved.ret
           THEN [k EXCEPT !.char = moved.state, !.pendingNPCAction = <<action, npcId>>]
           ELSE k :
         moved \in {CharMoveTo(k.char, NPCGetInteractionPoint(w, npcId).x,
                               NPCGetInteractionPoint(w, npcId).y, t)} })

\* The branch of handleCanvasClick for a click on an object and on no NPC.
\* The action bar is locked exactly while an action on an object is queued.
HandleObjectClick(k, object, action, selected, t) ==
  Only({ IF selected # << >>
           THEN IF moved.ret
                  THEN [k EXCEPT !.char = moved.state,
                                 !.pendingItemObjectAction = <<selected[1], object.id>>]
                  ELSE k
         ELSE [k EXCEPT !.char = moved.state,
                        !.pendingAction =
                           IF ~moved.ret THEN << >>
                           ELSE IF k.pendingAction # << >> THEN <<"walk", object.id>>
                           ELSE <<action, object.id>>] :
         moved \in {MoveToObject(k.char, object, t)} })

\* The branch of handleCanvasClick for a click on neither
HandleEmptyClick(k, position, t) ==
  [k EXCEPT !.pendingAction = << >>,
            !.char = CharMoveTo(k.char, position.x, position.y, t).state]

\* A handleCanvasClick that looks at the objects before the NPCs
HandleCanvasClickObjectFirst(k, w, position, action, selected, t) ==
  Only({ IF clickedObject # << >>
           THEN HandleObjectClick(k, clickedObject[1], action, selected, t)
         ELSE IF clickedNPC # << >> THEN HandleNPCClick(k, w, clickedNPC[1], action, t)
         ELSE HandleEmptyClick(k, position, t) :
         clickedNPC \in {GetNPCAtPosition(w, position.x, position.y)},
         clickedObject \in {GetObjectAtPosition(w.objects, position.x, position.y)} })

\* Game.handleCanvasClick(position) while no dialogue is active, the action
\* bar set to action and selected the inventory item selected, if any
HandleCanvasClick(k, w, position, action, selected, t) ==
  Only({ IF clickedNPC # << >> THEN HandleNPCClick(k, w, clickedNPC[1], action, t)
         ELSE IF clickedObject # << >>
           THEN HandleObjectClick(k, clickedObject[1], action, selected, t)
         ELSE HandleEmptyClick(k, position, t) :
         clickedNPC \in {GetNPCAtPosition(w, position.x, position.y)},
         clickedObject \in {GetObjectAtPosition(w.objects, position.x, position.y)} })

\* Game.executeDefaultNPCAction(action, npc)
ExecuteDefaultNPCAction(k, w, npcId, t) ==
  Only({ IF moved.ret
           THEN [k EXCEPT !.char = moved.state, !.pendingAction = << >>,
                          !.pendingNPCAction = <<NPCGetDefaultAction(w, npcId), npcId>>]
           ELSE [k EXCEPT !.pendingAction = << >>] :
         moved \in {CharMoveTo(k.char, NPCGetInteractionPoint(w, npcId).x,
                               NPCGetInteractionPoint(w, npcId).y, t)} })

\* Game.executeDefaultAction(action, object)
ExecuteDefaultAction(k, object, t) ==
  Only({ [k EXCEPT !.char = moved.state,
                   !.pendingAction = IF moved.ret THEN <<object.defaultAction, object.id>>
                                     ELSE << >>] :
         moved \in {MoveToObject(k.char, object, t)} })

\* Game.handleCanvasRightClick(position) on the game area while no dialogue
\* is active
HandleCanvasRightClick(k, w, position, t) ==
  Only({ IF clickedNPC # << >> THEN ExecuteDefaultNPCAction(k, w, clickedNPC[1], t)
         ELSE IF clickedObject # << >> THEN ExecuteDefaultAction(k, clickedObject[1], t)
         ELSE k :
         clickedNPC \in {GetNPCAtPosition(w, position.x, position.y)},
         clickedObject \in {GetObjectAtPosition(w.objects, position.x, position.y)} })

StageUnchanged ==
  UNCHANGED <<now, npc, bubble, dialogueTrees, currentState, gameFlags, uiResponses, timers, clickVars>>


\* stageManager.loadStage(stageId, gameWorldContainer)
CallLoadStage(stageId, pngLoads) ==
  \E r \in {LoadStage(World, stageId, pngLoads)} :
      /\ SetWorld(r.w)
      /\ ret' = r.ret
      /\ op' = <<"loadStage", stageId>>
      /\ UNCHANGED <<char, inventory, pendingAction, speech, wasCharacterMoving>>
      /\ StageUnchanged

\* stageManager.markObjectAsRemoved(stageId, objectId)
CallMarkObjectAsRemoved(stageId, objectId) ==
  /\ SetWorld([World EXCEPT !.removedObjects = MarkObjectAsRemoved(@, stageId, objectId)])
  /\ ret' = Undefined
  /\ op' = <<"markObjectAsRemoved", stageId, objectId>>
  /\ UNCHANGED <<char, inventory, pendingAction, speech, wasCharacterMoving>>
  /\ StageUnchanged

\* stageManager.addStage(stage)
CallAddStage(stage) ==
  /\ SetWorld([World EXCEPT !.stages = (stage.id :> stage) @@ @])
  /\ ret' = Undefined
  /\ op' = <<"addStage", stage.id>>
  /\ UNCHANGED <<char, inventory, pendingAction, speech, wasCharacterMoving>>
  /\ StageUnchanged

\* stageManager.addTransition(transition)
CallAddTransition(transition) ==
  /\ Len(transitions) < MaxTransitions
  /\ SetWorld([World EXCEPT !.transitions = Append(@, transition)])
  /\ ret' = Undefined
  /\ op' = <<"addTransition">>
  /\ UNCHANGED <<char, inventory, pendingAction, speech, wasCharacterMoving>>
  /\ StageUnchanged

\* stageManager.destroy()
CallDestroy ==
  /\ \E w \in {CleanupCurrentStage(World)} :
       SetWorld([w EXCEPT !.stages = <<>>, !.transitions = <<>>])
  /\ ret' = Undefined
  /\ op' = <<"destroy">>
  /\ UNCHANGED <<char, inventory, pendingAction, speech, wasCharacterMoving>>
  /\ StageUnchanged

\* handleKeyPress("m") and handleKeyPress("b"), no dialogue being shown:
\* npcManager.moveNPCTo(npcId, x, y)
KeyPress(key) ==
  LET npcId == IF key = "m" THEN "street-vendor" ELSE "bartender"
      target == IF key = "m" THEN Pos(500, 650) ELSE Pos(600, 680)
  IN  /\ IF npcId \in DOMAIN npcs
           THEN SetWorld([World EXCEPT !.npcs[npcId] =
                            NPCMoveTo(@, target.x, target.y, now).state])
           ELSE SetWorld(World)
      /\ ret' = Undefined
      /\ op' = <<"keyPress", key>>
      /\ UNCHANGED <<char, inventory, pendingAction, speech, wasCharacterMoving>>
      /\ StageUnchanged

\* handleCanvasClick(position), the position on the live object objectId and
\* on no NPC, no dialogue active and no inventory item selected, the action
\* bar set to action.  A click while an action is pending cancels it and
\* walks.
ClickObject(action, objectId) ==
  \E moved \in {IF objectId \in ObjectIds(objects)
                  THEN MoveToObject(char, objects[ObjectIndex(objects, objectId)], now)
                  ELSE [state |-> char, ret |-> FALSE]} :
      /\ objectId \in ObjectIds(objects)
      /\ char' = moved.state
      /\ pendingAction' = IF ~moved.ret THEN <<>>
                          ELSE IF pendingAction # <<>> THEN <<"walk", objectId>>
                          ELSE <<action, objectId>>
      /\ ret' = Undefined
      /\ op' = <<"click", action, objectId>>
      /\ UNCHANGED <<depthVars, stages, transitions, currentStage, backgroundSprite, keySprite,
                     removedObjects, loadedAssets, objects, hoveredObject, npcs, overlays,
                     inventory, speech, wasCharacterMoving>>
      /\ StageUnchanged

\* What a click leaves alone
ClickUnchanged ==
  UNCHANGED <<now, npc, bubble, depthVars, dialogueVars, stages, transitions, currentStage,
              backgroundSprite, keySprite, removedObjects, loadedAssets, objects,
              hoveredObject, npcs, overlays, speech, wasCharacterMoving, loading>>

\* Game.handleCanvasClick(position), the action bar set to action; while a
\* dialogue is active the click goes to the dialogue UI
CanvasClick(position, action) ==
  \E k \in {IF currentState.isActive THEN ClickState
             ELSE HandleCanvasClick(ClickState, World, position, action,
                                    selectedInventoryItem, now)} :
      /\ char' = k.char
      /\ pendingAction' = k.pendingAction
      /\ pendingNPCAction' = k.pendingNPCAction
      /\ pendingItemObjectAction' = k.pendingItemObjectAction
      /\ ret' = Undefined
      /\ op' = <<"canvasClick", position, action>>
      /\ UNCHANGED selectedInventoryItem
      /\ ClickUnchanged

\* Game.handleCanvasRightClick(position)
CanvasRightClick(position) ==
  \E k \in {IF currentState.isActive THEN ClickState
             ELSE HandleCanvasRightClick(ClickState, World, position, now)} :
      /\ char' = k.char
      /\ pendingAction' = k.pendingAction
      /\ pendingNPCAction' = k.pendingNPCAction
      /\ pendingItemObjectAction' = k.pendingItemObjectAction
      /\ ret' = Undefined
      /\ op' = <<"canvasRightClick", position>>
      /\ UNCHANGED selectedInventoryItem
      /\ ClickUnchanged

\* Game.handleInventoryClick on the item itemId with the action "use" and
\* no other item selected: selectInventoryItemForUse(item).  The inventory
\* takes no clicks while a dialogue is shown.
SelectInventoryItemForUse(itemId) ==
  /\ ~currentState.isActive
  /\ itemId \in inventory
  /\ selectedInventoryItem \in {<< >>, <<itemId>>}
  /\ selectedInventoryItem' = <<itemId>>
  /\ ret' = Undefined
  /\ op' = <<"selectInventoryItemForUse", itemId>>
  /\ UNCHANGED <<char, pendingAction, pendingNPCAction, pendingItemObjectAction>>
  /\ ClickUnchanged

\* Game.handleItemObjectCombination(item, object): the text spoken, with
\* ids where the code puts the lower-cased names
ItemObjectSpeech(itemId, objectId) ==
  CASE itemId = "keycard" /\ objectId = "building-entrance" ->
         "I swipe the keycard, but nothing happens. Maybe it's not for this door."
    [] itemId = "keycard" /\ objectId = "cryptic-door" ->
         "The keycard doesn't fit. This door doesn't have a card reader."
    [] OTHER -> "Using the " \o itemId \o " with the " \o objectId \o " doesn't seem to work."

\* The npcData of the NPC npcId in the catalog, as a sequence of none or one
CatalogNPCData(w, npcId) ==
  LET found == { <<stageId, i>> \in (DOMAIN w.stages) \X (1..2) :
                   /\ i <= Len(w.stages[stageId].npcs)
                   /\ w.stages[stageId].npcs[i].id = npcId }
  IN  IF found = {} THEN << >>
      ELSE LET at == CHOOSE pair \in found : TRUE IN << w.stages[at[1]].npcs[at[2]] >>

\* Game.handleNPCInteraction(npc, action): the dialogue state afterwards,
\* whether a dialogue tree was started, and the text spoken, if any.  The
\* line of the start node is given by the node's id; without a tree the NPC
\* says the first of its lines.
HandleNPCInteraction(w, trees, state, flags, npcId, action) ==
  Only({
    CASE action = "talk" ->
           IF started.ret # Null
             THEN [state |-> started.state, started |-> TRUE, speech |-> << started.ret >>]
             ELSE [state |-> state, started |-> FALSE,
                   speech |-> << "Hello there! I'm " \o npcId \o "." >>]
      [] action = "look" ->
           [state |-> state, started |-> FALSE,
            speech |-> IF data # << >> THEN << data[1].description >> ELSE << >>]
      [] action = "walk" -> [state |-> state, started |-> FALSE, speech |-> << >>]
      [] OTHER -> [state |-> state, started |-> FALSE,
                   speech |-> << "I can't " \o action \o " with " \o npcId \o "." >>] :
    started \in {StartDialogue(trees, state, flags, npcId)},
    data \in {CatalogNPCData(w, npcId)} })

\* Game.update() from the sorts on: done is the game as the queued action
\* on an object, if fires says it was carried out, has left it; then the
\* queued use of an item and the queued action on an NPC are carried out.
\* suspended holds the stage load that executePendingAction is left
\* awaiting, if any: the queued action is cleared only after that await.
FrameRest(done, fires, suspended) ==
  \E firesItem \in {wasCharacterMoving /\ ~char.isMoving /\ pendingItemObjectAction # << >>} :
  \E firesNPC \in {wasCharacterMoving /\ ~char.isMoving /\ pendingNPCAction # << >>} :
  \E interaction \in {IF firesNPC
                        THEN HandleNPCInteraction(done.w, dialogueTrees, currentState, gameFlags,
                                                  pendingNPCAction[2], pendingNPCAction[1])
                        ELSE [state |-> currentState, started |-> FALSE, speech |-> << >>]} :
      /\ SetWorld(done.w)
      /\ char' = done.char
      /\ inventory' = done.inventory
      /\ speech' = IF interaction.speech # << >> THEN interaction.speech[1]
                   ELSE IF firesItem
                     THEN ItemObjectSpeech(pendingItemObjectAction[1], pendingItemObjectAction[2])
                   ELSE done.speech
      /\ currentState' = interaction.state
      /\ timers' = IF interaction.started THEN timers \cup {<<"display">>} ELSE timers
      /\ pendingAction' = IF fires /\ suspended = << >> THEN << >> ELSE pendingAction
      /\ loading' = loading \o suspended
      /\ pendingItemObjectAction' = IF firesItem THEN << >> ELSE pendingItemObjectAction
      /\ selectedInventoryItem' = IF firesItem THEN << >> ELSE selectedInventoryItem
      /\ pendingNPCAction' = IF firesNPC THEN << >> ELSE pendingNPCAction
      /\ wasCharacterMoving' = char.isMoving
      /\ ret' = done.result
      /\ op' = IF fires THEN <<"executePendingAction", pendingAction[1], pendingAction[2]>>
               ELSE IF firesNPC
                 THEN <<"executePendingNPCAction", pendingNPCAction[1], pendingNPCAction[2]>>
               ELSE IF firesItem
                 THEN <<"executePendingItemObjectAction", pendingItemObjectAction[1],
                        pendingItemObjectAction[2]>>
               ELSE <<"update">>
      /\ UNCHANGED <<now, npc, bubble, dialogueTrees, gameFlags, uiResponses>>

\* Game.update() from the sorts on when executePendingAction runs to its end
FrameEnd(done, fires) == FrameRest(done, fires, << >>)

\* A Game.update() that sorts the depth entries before it advances the
\* character and the NPCs.
GameUpdateSortsFirst(pngLoads) ==
  \E moved \in {CharUpdateMovement(char, now + WalkTime)} :
  \E sorted \in {SortSprites(SortSpritesIfNeeded(World))} :
  \E withChar \in {IF char.isMoving THEN UpdateSpritePosition(sorted, CharacterId, moved.y)
                   ELSE sorted} :
  \E g \in {[ w |-> UpdateNPCs(withChar, DOMAIN withChar.npcs, now + WalkTime),
              char |-> CharUpdateAnimation(moved, now + WalkTime),
              inventory |-> inventory, speech |-> speech, result |-> Undefined ]} :
  \E fires \in {wasCharacterMoving /\ ~char.isMoving /\ pendingAction # <<>>} :
  \E done \in {IF fires
                 THEN ExecutePendingAction(g, pendingAction[1], pendingAction[2], pngLoads)
                 ELSE g} :
      FrameEnd(done, fires)

\* Game.update() at time now + WalkTime, with what executePendingAction
\* starts run to its end
GameUpdate(pngLoads) ==
  \E moved \in {CharUpdateMovement(char, now + WalkTime)} :
  \E withChar \in {IF char.isMoving THEN UpdateSpritePosition(World, CharacterId, moved.y)
                   ELSE World} :
  \E g \in {[ w |-> SortSprites(SortSpritesIfNeeded(
                      UpdateNPCs(withChar, DOMAIN withChar.npcs, now + WalkTime))),
              char |-> CharUpdateAnimation(moved, now + WalkTime),
              inventory |-> inventory, speech |-> speech, result |-> Undefined ]} :
  \E fires \in {wasCharacterMoving /\ ~char.isMoving /\ pendingAction # <<>>} :
  \E done \in {IF fires
                 THEN ExecutePendingAction(g, pendingAction[1], pendingAction[2], pngLoads)
                 ELSE g} :
      FrameEnd(done, fires)

\* A Game.update() that does not notice that the character has arrived with
\* an action on an object queued
GameUpdateMissesArrival ==
  \E moved \in {CharUpdateMovement(char, now + WalkTime)} :
  \E withChar \in {IF char.isMoving THEN UpdateSpritePosition(World, CharacterId, moved.y)
                   ELSE World} :
  \E g \in {[ w |-> SortSprites(SortSpritesIfNeeded(
                      UpdateNPCs(withChar, DOMAIN withChar.npcs, now + WalkTime))),
              char |-> CharUpdateAnimation(moved, now + WalkTime),
              inventory |-> inventory, speech |-> speech, result |-> Undefined ]} :
      FrameRest(g, FALSE, << >>)

\* Game.update() at time now + WalkTime as the event loop runs it: what
\* executePendingAction starts runs until a PNG has to be fetched
GameUpdateToAwait ==
  \E moved \in {CharUpdateMovement(char, now + WalkTime)} :
  \E withChar \in {IF char.isMoving THEN UpdateSpritePosition(World, CharacterId, moved.y)
                   ELSE World} :
  \E g \in {[ w |-> SortSprites(SortSpritesIfNeeded(
                      UpdateNPCs(withChar, DOMAIN withChar.npcs, now + WalkTime))),
              char |-> CharUpdateAnimation(moved, now + WalkTime),
              inventory |-> inventory, speech |-> speech, result |-> Undefined ]} :
  \E fires \in {wasCharacterMoving /\ ~char.isMoving /\ pendingAction # <<>>} :
  \E done \in {IF fires
                 THEN ExecutePendingActionToAwait(g, pendingAction[1], pendingAction[2])
                 ELSE [g |-> g, suspended |-> << >>]} :
      FrameRest(done.g, fires, done.suspended)

\* Assets.load settles for the first n loads in flight, which wait for the
\* same PNG: each executePendingAction goes on from its await, clears the
\* queued action and unlocks the action bar
LoadCompletes(n, pngLoads) ==
  /\ n \in 1..Len(loading)
  /\ \E done \in {ResumeStageTransitions(
                     [ w |-> World, char |-> char, inventory |-> inventory, speech |-> speech,
                       result |-> Undefined ],
                     SubSeq(loading, 1, n), pngLoads)} :
        /\ SetWorld(done.w)
        /\ char' = done.char
        /\ inventory' = done.inventory
        /\ speech' = done.speech
        /\ ret' = done.result
  /\ pendingAction' = << >>
  /\ loading' = SubSeq(loading, n + 1, Len(loading))
  /\ op' = <<"loadCompletes", n, pngLoads>>
  /\ UNCHANGED <<now, npc, bubble, dialogueTrees, currentState, gameFlags, uiResponses, timers,
                 pendingNPCAction, pendingItemObjectAction, selectedInventoryItem,
                 wasCharacterMoving>>

\* The stage manager and the NPC manager driven directly, the character at rest
NextStage ==
  \/ \E stageId \in StageIds, pngLoads \in BOOLEAN : CallLoadStage(stageId, pngLoads)
  \/ \E pair \in RemovablePairs : CallMarkObjectAsRemoved(pair[1], pair[2])
  \/ \E stage \in AddedStages : CallAddStage(stage)
  \/ \E transition \in AddedTransitions : CallAddTransition(transition)
  \/ CallDestroy
  \/ \E key \in Keys : KeyPress(key)
  \/ \E pngLoads \in BOOLEAN : GameUpdate(pngLoads)

SpecStage == InitStage /\ [][NextStage]_vars

\* The player walking the character to objects, the frames carrying out what
\* was queued, the catalog gaining transitions or being cleared
NextTravel ==
  \/ \E transition \in AddedTransitions : CallAddTransition(transition)
  \/ CallDestroy
  \/ \E click \in Clicks : ClickObject(click[1], click[2])
  \/ \E pngLoads \in BOOLEAN : GameUpdate(pngLoads)

SpecTravel == InitStage /\ [][NextTravel]_vars

\* The stage manager driven directly while the player picks the key up
NextRemoval ==
  \/ \E stageId \in StageIds, pngLoads \in BOOLEAN : CallLoadStage(stageId, pngLoads)
  \/ \E pair \in RemovablePairs : CallMarkObjectAsRemoved(pair[1], pair[2])
  \/ CallDestroy
  \/ ClickObject("get", "golden-key")
  \/ \E pngLoads \in BOOLEAN : GameUpdate(pngLoads)

SpecRemoval == InitStage /\ [][NextRemoval]_vars

\* Stages without a perspectiveMovement or with a factor out of range added
\* to the catalog and reached from the street through the city in the distance
FactorStages == {AnnexStage, LoftStage}

FactorTransitions ==
  { [ fromStageId |-> "cyberpunk-street", toStageId |-> stage.id,
      triggerObjectId |-> "city-in-distance", targetPosition |-> << >> ] :
    stage \in FactorStages }

FactorClicks ==
  { <<"walk", "city-in-distance">>, <<"open", "building-entrance">>,
    <<"walk", "building-entrance">>, <<"walk", "exit-door">> }

NextFactor ==
  \/ \E stage \in FactorStages : CallAddStage(stage)
  \/ \E transition \in FactorTransitions : CallAddTransition(transition)
  \/ \E click \in FactorClicks : ClickObject(click[1], click[2])
  \/ \E pngLoads \in BOOLEAN : GameUpdate(pngLoads)

SpecFactor == InitStage /\ [][NextFactor]_vars

(***************************************************************************)
(* The object manager driven directly on the street: objects added over    *)
(* the stage's, removed, hovered, hit-tested, and stages loaded.           *)
(***************************************************************************)
\* Objects handed to addObject: a crate whose rectangle overlaps the golden
\* key's and whose polygon has two vertices only, and the golden key once
\* more
AddedObjects ==
  { ObjectData("crate", Num(490), Num(630), Num(60), Num(40), "look",
               << Pos(0, 0), Pos(1000, 1000) >>),
    ObjectData("golden-key", Num(500), Num(640), Num(48), Num(24), "get", << >>) }

RemovedIds == {"golden-key", "crate"}

\* Positions asked about: on the key and the crate, on the building
\* entrance, on nothing
HitPoints == { Pos(510, 650), Pos(110, 510), Pos(300, 300) }

ObjectStageIds == {"test-indoor"}

ObjectUnchanged ==
  UNCHANGED <<char, inventory, pendingAction, speech, wasCharacterMoving>>

\* objectManager.addObject(objectData)
CallAddObject(objectData) ==
  /\ SetWorld(AddObject(World, objectData))
  /\ ret' = Undefined
  /\ op' = <<"addObject", objectData>>
  /\ ObjectUnchanged
  /\ StageUnchanged

\* objectManager.removeObject(id)
CallRemoveObject(id) ==
  /\ SetWorld(RemoveObject(World, id))
  /\ ret' = (id \in ObjectIds(objects))
  /\ op' = <<"removeObject", id>>
  /\ ObjectUnchanged
  /\ StageUnchanged

\* objectManager.getObjectAtPosition(position.x, position.y): the id of the
\* object returned, or undefined
CallGetObjectAtPosition(position) ==
  \E found \in {GetObjectAtPosition(objects, position.x, position.y)} :
      /\ ret' = IF found = <<>> THEN Undefined ELSE found[1].id
      /\ op' = <<"getObjectAtPosition", position>>
      /\ UNCHANGED <<depthVars, stages, transitions, currentStage, backgroundSprite, keySprite,
                     removedObjects, loadedAssets, objects, hoveredObject, npcs, overlays>>
      /\ ObjectUnchanged
      /\ StageUnchanged

\* objectManager.updateHover(position)
CallUpdateHover(position) ==
  /\ SetWorld(UpdateHover(World, position))
  /\ ret' = Undefined
  /\ op' = <<"updateHover", position>>
  /\ ObjectUnchanged
  /\ StageUnchanged

\* objectManager.clearHover()
CallClearHover ==
  /\ SetWorld(ClearHover(World))
  /\ ret' = Undefined
  /\ op' = <<"clearHover">>
  /\ ObjectUnchanged
  /\ StageUnchanged

NextObjects ==
  \/ \E objectData \in AddedObjects : CallAddObject(objectData)
  \/ \E id \in RemovedIds : CallRemoveObject(id)
  \/ \E position \in HitPoints : CallGetObjectAtPosition(position)
  \/ \E position \in HitPoints : CallUpdateHover(position)
  \/ CallClearHover
  \/ \E stageId \in ObjectStageIds : CallLoadStage(stageId, TRUE)

SpecObjects == InitStage /\ [][NextObjects]_vars

(***************************************************************************)
(* Stage loading                                                           *)
(***************************************************************************)
LoadStageSucceeded == op'[1] = "loadStage" /\ ret' = TRUE

\* C11: after every loadStage(s) that succeeds the live objects are the
\* objects the catalog defines for s whose ids are not marked removed for s,
\* whatever is marked removed for other stages, and no key sprite is on show
\* when the golden key is marked removed for s.
LoadStageLoadsObjectsNotRemoved ==
  [][ LoadStageSucceeded =>
        LET s == op'[2]
            defined == {stages'[s].objects[i].id : i \in 1..Len(stages'[s].objects)}
        IN  /\ ObjectIds(objects') = {o \in defined : <<s, o>> \notin removedObjects'}
            /\ <<s, "golden-key">> \in removedObjects' =>
                 /\ ~HasSprite(sprites', "key-sprite")
                 /\ ~InSeq(children', keySprite') ]_vars

\* the street loaded with the key marked removed for the other stage only
KeyRemovedElsewhereStillLoaded ==
  /\ op = <<"loadStage", "cyberpunk-street">>
  /\ ret = TRUE
  /\ removedObjects = {<<"test-indoor", "golden-key">>}
  /\ "golden-key" \in ObjectIds(objects)
  /\ HasSprite(sprites, "key-sprite")

\* C12: no step takes a pair out of the removed-object set; markObjectAsRemoved
\* adds its own pair and nothing else, a pick-up of the key adds the pair of
\* the current stage, and every other operation (loadStage, destroy, a frame)
\* leaves the set as it is.
RemovedObjectsOnlyGrow ==
  [][ /\ removedObjects \subseteq removedObjects'
      /\ op'[1] = "markObjectAsRemoved" =>
           removedObjects' = removedObjects \cup {<<op'[2], op'[3]>>}
      /\ op'[1] = "executePendingAction" =>
           removedObjects' \subseteq removedObjects \cup {<<currentStage, "golden-key">>}
      /\ op'[1] \notin {"markObjectAsRemoved", "executePendingAction"} =>
           removedObjects' = removedObjects ]_vars

\* the manager destroyed after the key was picked up and both pairs marked
DestroyedWithRemovedObjects ==
  /\ op = <<"destroy">>
  /\ removedObjects = RemovablePairs
  /\ "golden-key" \in inventory

(***************************************************************************)
(* Stage transitions                                                       *)
(***************************************************************************)
TransitionCarriedOut == op'[1] = "executePendingAction" /\ ret' = "true"

\* C13: after every stage transition that succeeds the character stands at
\* the transition's target position when it has one and at the new stage's
\* start position otherwise, walks in the new stage's polygon, and the depth
\* registry holds the character under its new Y with the draw order sorted
\* and no sort outstanding.
TransitionPlacesCharacter ==
  [][ TransitionCarriedOut =>
        LET transition == FindTransition(transitions, currentStage, op'[3])[1]
            stage == stages'[transition.toStageId]
            position == IF transition.targetPosition # <<>>
                          THEN transition.targetPosition[1]
                          ELSE stage.characterStartPosition
        IN  /\ currentStage' = transition.toStageId
            /\ char'.x = position.x
            /\ char'.y = position.y
            /\ char'.walkableArea = stage.walkableArea
            /\ HasSprite(sprites', CharacterId)
            /\ sprites'[SpriteIndex(sprites', CharacterId)].yPosition = position.y
            /\ needsSort' = FALSE
            /\ DrawOrderSorted' ]_vars

\* the stool's transition, which has no target position, carried out: the
\* character is at the street's start position
ArrivedAtStartPosition ==
  /\ op = <<"executePendingAction", "walk", "stool-small">>
  /\ ret = "true"
  /\ currentStage = "cyberpunk-street"
  /\ char.x = Num(400) /\ char.y = Num(690)
  /\ char.walkableArea = CyberpunkWalkableArea

GatedWalkExecutes ==
  op'[1] = "executePendingAction" /\ op'[2] = "walk" /\ op'[3] = "building-entrance"

DoorOpen ==
  LET door == GetOverlayByObjectAndAction(World, "building-entrance", "open")
  IN  door # <<>> /\ overlays[door[1]].visible

LoadStageFailed == op'[1] = "loadStage" /\ ret' = FALSE

\* C14: after a loadStage that fails, for an id the catalog does not know or
\* a background that is not loaded, the stage that was loaded is torn down:
\* no object, no NPC and no overlay is live, the depth registry holds the
\* character's entry at most, and the stage asked for is not the current one.
FailedLoadTearsStageDown ==
  [][ LoadStageFailed =>
        /\ objects' = <<>>
        /\ npcs' = <<>>
        /\ overlays' = <<>>
        /\ \A i \in 1..Len(sprites') : sprites'[i].id = CharacterId
        /\ currentStage' # op'[2] ]_vars

TeardownRan == op'[1] = "loadStage" /\ op'[2] \in DOMAIN stages

\* C16: the teardown that loadStage starts with for a stage the catalog knows
\* unregisters every depth entry of the stage that was loaded, so that once
\* the call is over each entry of the depth registry is bound to a live
\* display object in the container, and after a load that succeeds the
\* entries are the character's and the new stage's: its background, its key
\* sprite, its NPCs and its overlays.
TeardownUnregistersStageEntries ==
  [][ /\ TeardownRan => \A i \in 1..Len(sprites') : IsValidSprite(sprites'[i], DepthState')
      /\ LoadStageSucceeded =>
           {sprites'[i].id : i \in 1..Len(sprites')} =
             {CharacterId, "background"}
               \cup (IF keySprite' # 0 /\ InSeq(children', keySprite')
                       THEN {"key-sprite"} ELSE {})
               \cup {"npc-" \o id : id \in DOMAIN npcs'}
               \cup {"overlay-" \o id : id \in DOMAIN overlays'} ]_vars

\* C17: no step but addStage, addTransition and destroy changes the stages
\* or the transitions of the catalog, and a load that succeeds makes each NPC
\* of the stage at the position the stage was defined with.
CatalogIsNeverModified ==
  [][ /\ op'[1] \notin {"addStage", "addTransition", "destroy"} =>
             stages' = stages /\ transitions' = transitions
      /\ LoadStageSucceeded =>
           \A k \in 1..Len(StageCatalog[op'[2]].npcs) :
             LET npcData == StageCatalog[op'[2]].npcs[k]
             IN  /\ npcData.id \in DOMAIN npcs'
                 /\ npcs'[npcData.id].x = npcData.position.x
                 /\ npcs'[npcData.id].y = npcData.position.y ]_vars

\* C20: the catalog holds at most one transition for a stage and a trigger
\* object, and findTransition returns the transition of the pair when there
\* is one.
OneTransitionPerTrigger ==
  /\ \A i, j \in 1..Len(transitions) :
       /\ transitions[i].fromStageId = transitions[j].fromStageId
       /\ transitions[i].triggerObjectId = transitions[j].triggerObjectId
       => i = j
  /\ \A i \in 1..Len(transitions) :
       FindTransition(transitions, transitions[i].fromStageId,
                      transitions[i].triggerObjectId) = <<transitions[i]>>

(***************************************************************************)
(* The Y movement factor of the stage arrived in                           *)
(***************************************************************************)
\* C21: after every stage transition that succeeds the character's Y
\* movement factor is the new stage's yMovementFactor brought into the range
\* from 0.1 to 1, and 1 when the stage configures no perspectiveMovement.
StageFactorAppliedOnArrival ==
  [][ TransitionCarriedOut =>
        LET movement == stages'[currentStage'].perspectiveMovement
        IN  char'.yMovementFactor =
              IF movement = <<>> THEN Num(1)
              ELSE IF Gt(movement[1].yMovementFactor, Num(1)) THEN Num(1)
              ELSE IF Lt(movement[1].yMovementFactor, <<1, 10>>) THEN <<1, 10>>
              ELSE movement[1].yMovementFactor ]_vars

(***************************************************************************)
(* The direction the character faces                                       *)
(***************************************************************************)
\* C22: a moveTo that is accepted turns the character to the dominant axis
\* of the displacement: right or left when |dx| > |dy|, down or up when
\* |dy| > |dx|, and right or left again when |dx| = |dy| and dx is not 0.
MoveToFacesDominantAxis ==
  [][ (op'[1] = "char.moveTo" /\ ret' = TRUE) =>
        LET dx == Sub(op'[2].x, char.x)
            dy == Sub(op'[2].y, char.y)
        IN  /\ Gt(Abs(dx), Abs(dy)) =>
                  char'.currentDirection = IF Gt(dx, Num(0)) THEN "right" ELSE "left"
            /\ Gt(Abs(dy), Abs(dx)) =>
                  char'.currentDirection = IF Gt(dy, Num(0)) THEN "down" ELSE "up"
            /\ (Abs(dx) = Abs(dy) /\ dx # Num(0)) =>
                  char'.currentDirection = IF Gt(dx, Num(0)) THEN "right" ELSE "left" ]_vars

(***************************************************************************)
(* Hit-testing and hovering                                                *)
(***************************************************************************)
\* C23: the object just handed to addObject is the one registered last, so
\* getObjectAtPosition returns it at every point its shape contains, also
\* when its id was registered before; and getObjectAtPosition returns
\* nothing exactly when no registered object contains the point, the shape
\* being the polygon when it has three vertices or more and the rectangle
\* otherwise.
LastRegisteredObjectIsHit ==
  [][ /\ op'[1] = "addObject" =>
           \A p \in HitPoints :
             ContainsPoint(op'[2], p.x, p.y) =>
               /\ GetObjectAtPosition(objects', p.x, p.y) # << >>
               /\ GetObjectAtPosition(objects', p.x, p.y)[1].id = op'[2].id
      /\ op'[1] = "getObjectAtPosition" =>
           (ret' = Undefined <=>
              \A i \in 1..Len(objects) :
                LET o == objects[i]
                    inShape ==
                      IF Len(o.polygon) >= 3
                        THEN IsPointInPolygon(op'[2].x, op'[2].y, o.polygon)
                        ELSE /\ Ge(op'[2].x, o.position.x)
                             /\ Ge(Add(o.position.x, o.width), op'[2].x)
                             /\ Ge(op'[2].y, o.position.y)
                             /\ Ge(Add(o.position.y, o.height), op'[2].y)
                IN  ~inShape) ]_vars

\* C24: at most one registered object is hovered, and the hovered object
\* the manager reports is none or that object, registered in the Map.
HoveredObjectIsRegistered ==
  /\ Cardinality({i \in 1..Len(objects) : objects[i].isHovered}) <= 1
  /\ hoveredObject # << >> =>
       \E i \in 1..Len(objects) :
         objects[i].ref = hoveredObject[1].ref /\ objects[i].isHovered


(***************************************************************************)
(* Movement under walkable areas of any size: the controller and an NPC as *)
(* their constructors leave them, no walkable area set, and                *)
(* setWalkableArea called with polygons of no, two and six vertices        *)
(* between the moves.                                                      *)
(***************************************************************************)
WalkableAreaChoices ==
  { <<>>, <<Pos(0, 650), Pos(1024, 650)>>, CyberpunkWalkableArea }

\* A point off the street polygon and the point the entity starts at, on
\* the polygon, for the player and for the NPC.
WalkableCharTargets == { Pos(400, 600), Pos(400, 690) }

WalkableNPCTargets == { Pos(36, 600), Pos(36, 712) }

InitWalkable ==
  /\ now = 0
  /\ char = NewCharacterController(CharacterStartPosition)
  /\ npc = NewNPC(MayaPosition)
  /\ bubble = NewSpeechBubble
  /\ sprites = << [id |-> CharacterId, sprite |-> 1,
                   yPosition |-> CharacterStartPosition.y, type |-> "character"],
                  [id |-> MayaId, sprite |-> 2,
                   yPosition |-> MayaPosition.y, type |-> "npc"] >>
  /\ children = <<1, 2>>
  /\ destroyed = {}
  /\ needsSort = FALSE
  /\ NoDialogue
  /\ NoStage
  /\ op = <<"init">>
  /\ ret = Undefined

\* characterController.setWalkableArea(polygon)
CallCharSetWalkableArea(polygon) ==
  /\ char' = [char EXCEPT !.walkableArea = polygon]
  /\ ret' = Undefined
  /\ op' = <<"char.setWalkableArea">>
  /\ UNCHANGED <<now, npc, bubble, depthVars, dialogueVars, stageVars>>

\* npc.setWalkableArea(walkableArea)
CallNPCSetWalkableArea(walkableArea) ==
  /\ npc' = [npc EXCEPT !.walkableArea = walkableArea]
  /\ ret' = Undefined
  /\ op' = <<"npc.setWalkableArea">>
  /\ UNCHANGED <<now, char, bubble, depthVars, dialogueVars, stageVars>>

NextWalkable ==
  \/ \E polygon \in WalkableAreaChoices : CallCharSetWalkableArea(polygon)
  \/ \E polygon \in WalkableAreaChoices : CallNPCSetWalkableArea(polygon)
  \/ \E t \in WalkableCharTargets : CallCharMoveTo(t)
  \/ CallCharUpdate
  \/ \E t \in WalkableNPCTargets : CallNPCMoveTo(t)
  \/ CallNPCUpdate
  \/ AdvanceClock

SpecWalkable == InitWalkable /\ [][NextWalkable]_vars

\* Points on the street polygon, off it, on the two-vertex segment and far
\* outside the canvas.
WalkableProbes ==
  { Pos(400, 690), Pos(400, 600), Pos(512, 650), Pos(0, 650), Pos(0, 0), Pos(5000, 5000) }

\* C28: while the walkable area of the player character, or of an NPC, has
\* fewer than three vertices or was never set, every point passes its
\* walkability test and every moveTo is accepted.
ShortPolygonWalkableEverywhere ==
  [][ /\ Len(char.walkableArea) < 3 =>
           /\ \A p \in WalkableProbes : IsPositionWalkable(p.x, p.y, char.walkableArea)
           /\ op'[1] = "char.moveTo" => ret' = TRUE
      /\ Len(npc.walkableArea) < 3 =>
           /\ \A p \in WalkableProbes : IsPositionWalkable(p.x, p.y, npc.walkableArea)
           /\ op'[1] = "npc.moveTo" => ret' = TRUE
    ]_vars

\* The player has just been sent to a point off the street under a walkable
\* area of two vertices and is on its way, and Maya, whose walkable area
\* has fewer than three vertices too, is walking to a point off the street.
WalkingOffStreetUnderShortPolygon ==
  /\ op = <<"char.moveTo", Pos(400, 600)>>
  /\ ret = TRUE
  /\ Len(char.walkableArea) = 2
  /\ char.isMoving
  /\ char.targetPosition = Pos(400, 600)
  /\ Len(npc.walkableArea) < 3
  /\ npc.isMoving
  /\ npc.targetPosition = Pos(36, 600)


(***************************************************************************)
(* Frames while the player and Maya walk: clicks send the character to     *)
(* interaction points above and below the NPCs, "m" sends Maya up the      *)
(* street, and the building entrance and the exit door change the stage.   *)
(***************************************************************************)
TickClicks ==
  { <<"walk", "hotel-sign">>, <<"look", "cryptic-door">>,
    <<"walk", "building-entrance">>, <<"walk", "exit-door">> }

NextTick ==
  \/ \E click \in TickClicks : ClickObject(click[1], click[2])
  \/ \E key \in Keys : KeyPress(key)
  \/ \E pngLoads \in BOOLEAN : GameUpdate(pngLoads)

SpecTick == InitStage /\ [][NextTick]_vars

\* The depth entry of id, as a sequence of none or one entry.
DepthEntry(id) == SelectSeq(sprites, LAMBDA e : e.id = id)

\* A frame: Game.update() with or without a queued action carried out.
Tick == op'[1] \in {"update", "executePendingAction"}

\* C29: at the end of every frame the valid depth entries are drawn in an
\* order that is non-decreasing in their Y positions, and those positions
\* are the ones the frame has moved the character and the NPCs to.
DrawOrderSortedAfterTick ==
  [][ Tick =>
        /\ DrawOrderSorted'
        /\ \A i \in 1..Len(sprites') :
             /\ sprites'[i].id = CharacterId => sprites'[i].yPosition = char'.y
             /\ \A id \in DOMAIN npcs' :
                  (/\ sprites'[i].sprite = npcs'[id].sprite
                   /\ IsValidSprite(sprites'[i], DepthState'))
                    => sprites'[i].yPosition = npcs'[id].y
    ]_vars

\* A frame has just taken the character to the hotel sign and Maya up the
\* street, both now above the bartender, and the character is drawn before
\* the bartender.
WalkedAboveBartender ==
  /\ op = <<"update">>
  /\ currentStage = "cyberpunk-street"
  /\ char.y = Num(657)
  /\ ~char.isMoving
  /\ "street-vendor" \in DOMAIN npcs
  /\ npcs["street-vendor"].y = Num(650)
  /\ DepthEntry(CharacterId) # <<>>
  /\ DepthEntry("npc-bartender") # <<>>
  /\ IndexOf(children, DepthEntry(CharacterId)[1].sprite)
       < IndexOf(children, DepthEntry("npc-bartender")[1].sprite)


(***************************************************************************)
(* Clicks and right-clicks on the street: on the bartender in front of the *)
(* bar door, on Maya in front of the building entrance, on the entrance    *)
(* beside her; right-clicks on the two NPCs.                               *)
(***************************************************************************)
ClickPositions == { Pos(730, 600), Pos(70, 600), Pos(110, 510) }

RightClickPositions == { Pos(730, 600), Pos(70, 600) }

ClickActions == {"look"}

NextClick ==
  \/ \E position \in ClickPositions, action \in ClickActions : CanvasClick(position, action)
  \/ \E position \in RightClickPositions : CanvasRightClick(position)
  \/ SelectInventoryItemForUse("keycard")
  \/ GameUpdate(TRUE)

SpecClick == InitStage /\ [][NextClick]_vars

\* The NPC and the object at the position of the click being made
NPCClicked == GetNPCAtPosition(World, op'[2].x, op'[2].y)

ObjectClicked == GetObjectAtPosition(objects, op'[2].x, op'[2].y)

\* C25: a click, left or right, that the game takes (no dialogue is active)
\* at a position inside both an NPC and an object queues the action on the
\* NPC, the action bar's for a left click and the NPC's default action for
\* a right click, and queues neither an action on the object nor the use of
\* an item on it.
NPCClickedBeforeObject ==
  [][ (/\ op'[1] \in {"canvasClick", "canvasRightClick"}
       /\ ~currentState.isActive
       /\ NPCClicked # << >>
       /\ ObjectClicked # << >>)
        => /\ pendingNPCAction' =
                IF op'[1] = "canvasClick" THEN <<op'[3], NPCClicked[1]>>
                ELSE <<NPCGetDefaultAction(World, NPCClicked[1]), NPCClicked[1]>>
           /\ pendingItemObjectAction' = pendingItemObjectAction
           /\ pendingAction' = IF op'[1] = "canvasClick" THEN pendingAction ELSE << >>
    ]_vars

\* The keycard is selected and the player has just clicked, with "look",
\* where the bartender stands in front of the bar door: the look at the
\* bartender is queued, nothing for the door.
ClickedBartenderAtBarDoor ==
  /\ op = <<"canvasClick", Pos(730, 600), "look">>
  /\ GetNPCAtPosition(World, Num(730), Num(600)) = <<"bartender">>
  /\ GetObjectAtPosition(objects, Num(730), Num(600)) # << >>
  /\ GetObjectAtPosition(objects, Num(730), Num(600))[1].id = "bar-door"
  /\ selectedInventoryItem = <<"keycard">>
  /\ pendingNPCAction = <<"look", "bartender">>
  /\ pendingAction = << >>
  /\ pendingItemObjectAction = << >>
  /\ char.isMoving


(***************************************************************************)
(* Frames, clicks and the completion of stage loads in any order, on the   *)
(* street and in the room behind the building entrance: clicks on the      *)
(* entrance and on the city in the distance with "open" and "walk", clicks *)
(* where the stool stands in the room, the keycard taken up for use, and a *)
(* second way into the room added with addTransition.                      *)
(***************************************************************************)
LoadClicks ==
  { <<Pos(110, 510), "open">>, <<Pos(110, 510), "walk">>, <<Pos(480, 520), "walk">>,
    <<Pos(604, 636), "walk">> }

\* The most stage loads in flight at a time
MaxLoading == 2

LoadTransitions ==
  { [ fromStageId |-> "cyberpunk-street", toStageId |-> "test-indoor",
      triggerObjectId |-> "city-in-distance", targetPosition |-> << >> ] }

NextLoad ==
  \/ \E click \in LoadClicks : CanvasClick(click[1], click[2])
  \/ SelectInventoryItemForUse("keycard")
  \/ \E transition \in LoadTransitions : CallAddTransition(transition)
  \/ GameUpdateToAwait /\ Len(loading') <= MaxLoading
  \/ \E n \in 1..MaxLoading : LoadCompletes(n, TRUE)

SpecLoad == InitStage /\ [][NextLoad]_vars


\* C30: while a transition's stage load is in flight no second transition
\* is started, so at most one load is in flight, and no frame carries out
\* the queued action whose transition is still loading.
NoReentryWhileLoading ==
  [][ /\ Len(loading') <= 1
      /\ (loading # << >> /\ op'[1] = "executePendingAction")
            => \A i \in 1..Len(loading) :
                 <<op'[2], op'[3]>> # <<loading[i].action, loading[i].objectId>>
    ]_vars


\* A click, left or right, that starts a movement of the character
ClickStartsMovement ==
  /\ op'[1] \in {"canvasClick", "canvasRightClick"}
  /\ char'.isMoving
  /\ char' # char

\* C31: a click that starts a movement leaves queued only what that click
\* itself queued: on an NPC nothing but the action on that NPC, on an object
\* nothing but one action on that object, on empty ground nothing, so that
\* an action queued with an earlier movement does not fire where the new
\* movement ends.
NewMovementCancelsQueuedActions ==
  [][ ClickStartsMovement
        => IF NPCClicked # << >>
             THEN /\ pendingAction' = << >>
                  /\ pendingItemObjectAction' = << >>
                  /\ pendingNPCAction' # << >> /\ pendingNPCAction'[2] = NPCClicked[1]
           ELSE IF ObjectClicked # << >>
             THEN /\ pendingNPCAction' = << >>
                  /\ \/ pendingAction' = << >>
                     \/ pendingItemObjectAction' = << >>
                  /\ pendingAction' # << >> => pendingAction'[2] = ObjectClicked[1].id
                  /\ pendingItemObjectAction' # << >>
                        => pendingItemObjectAction'[2] = ObjectClicked[1].id
           ELSE /\ pendingAction' = << >>
                /\ pendingItemObjectAction' = << >>
                /\ pendingNPCAction' = << >>
    ]_vars

\* C32: at most one of pendingAction, pendingItemObjectAction and
\* pendingNPCAction is set.
AtMostOnePendingSlot ==
  Cardinality({ i \in 1..3 : <<pendingAction, pendingItemObjectAction, pendingNPCAction>>[i]
                               # << >> }) <= 1


(***************************************************************************)
(* Talking on the way through the entrance: clicks on the entrance with    *)
(* "open" and "walk" and on Maya with "talk", frames, and the completion   *)
(* of stage loads.                                                         *)
(***************************************************************************)
TalkClicks ==
  { <<Pos(110, 510), "open">>, <<Pos(110, 510), "walk">>, <<Pos(70, 600), "talk">> }

NextTalk ==
  \/ \E click \in TalkClicks : CanvasClick(click[1], click[2])
  \/ GameUpdateToAwait /\ Len(loading') <= MaxLoading
  \/ \E n \in 1..MaxLoading, pngLoads \in BOOLEAN : LoadCompletes(n, pngLoads)

SpecTalk == InitStage /\ [][NextTalk]_vars

StrayClicks ==
  { <<Pos(110, 510), "open">>, <<Pos(110, 510), "walk">>, <<Pos(100, 750), "walk">> }

NextStray ==
  \/ \E click \in StrayClicks : CanvasClick(click[1], click[2])
  \/ GameUpdateToAwait /\ Len(loading') <= MaxLoading
  \/ \E n \in 1..MaxLoading, pngLoads \in BOOLEAN : LoadCompletes(n, pngLoads)

SpecStray == InitStage /\ [][NextStray]_vars

\* C34: a character that is not moving stands inside the walkable area of
\* the current stage.
IdleInsideWalkableArea ==
  (~char.isMoving /\ currentStage \in DOMAIN stages)
    => IsPositionWalkable(char.x, char.y, stages[currentStage].walkableArea)


\* The ids of the objects, NPCs and overlays a load of the stage puts in place
StageObjectIds(stage) == { stage.objects[i].id : i \in 1..Len(stage.objects) }

StageObjectIdsNotRemoved(stage) ==
  { id \in StageObjectIds(stage) : ~IsObjectRemoved(removedObjects, stage.id, id) }

StageNPCIds(stage) == { stage.npcs[i].id : i \in 1..Len(stage.npcs) }

StageOverlayIds(stage) ==
  { GetStageOverlayAssets(stage.id)[i].id : i \in 1..Len(GetStageOverlayAssets(stage.id)) }

\* C35: the live objects and NPCs are those of the stage that
\* getCurrentStage reports (its objects but for the ones marked removed,
\* which are gone at the latest after the next load), and the live overlays
\* are overlays of that stage.
CurrentStageOwnsLiveContent ==
  currentStage \in DOMAIN stages
    => /\ ObjectIds(objects) \subseteq StageObjectIds(stages[currentStage])
       /\ StageObjectIdsNotRemoved(stages[currentStage]) \subseteq ObjectIds(objects)
       /\ DOMAIN npcs = StageNPCIds(stages[currentStage])
       /\ DOMAIN overlays \subseteq StageOverlayIds(stages[currentStage])


(***************************************************************************)
(* The golden key: clicks on the key with "get", on the entrance with      *)
(* "open" and "walk" and on the exit door of the room with "walk", frames, *)
(* and InventorySystem.addItem called with further items before the first  *)
(* click.                                                                  *)
(***************************************************************************)
KeyClicks ==
  { <<Pos(510, 650), "get">>, <<Pos(110, 510), "open">>, <<Pos(110, 510), "walk">>,
    <<Pos(890, 450), "walk">> }

\* The items handed to addItem, in this order
FurtherItems == << "coin", "map", "wire", "fuse", "lens", "tape", "bolt" >>

\* InventorySystem.addItem(item) with the first of the further items that
\* is not in the inventory: it takes the first empty slot, if there is one.
\* The items are handed over before the player's first click.
CallAddItem ==
  /\ op[1] \in {"init", "addItem"}
  /\ \E k \in 1..Len(FurtherItems) :
        /\ FurtherItems[k] \notin inventory
        /\ \A j \in 1..(k - 1) : FurtherItems[j] \in inventory
        /\ inventory' = IF Cardinality(inventory) < MaxSlots
                          THEN inventory \cup {FurtherItems[k]} ELSE inventory
        /\ ret' = (Cardinality(inventory) < MaxSlots)
        /\ op' = <<"addItem", FurtherItems[k]>>
  /\ UNCHANGED <<now, char, npc, bubble, depthVars, dialogueTrees, currentState, gameFlags, uiResponses,
                 timers, stageVars>>

\* The player plays with the inventory as constructed or with every slot
\* taken
KeyPlay ==
  \/ \A k \in 1..Len(FurtherItems) : FurtherItems[k] \notin inventory
  \/ \A k \in 1..Len(FurtherItems) : FurtherItems[k] \in inventory

NextKey ==
  \/ \E click \in KeyClicks : KeyPlay /\ CanvasClick(click[1], click[2])
  \/ CallAddItem
  \/ GameUpdate(TRUE)

SpecKey == InitStage /\ [][NextKey]_vars

\* C36: the golden key is in the inventory exactly when it is marked removed
\* for cyberpunk-street; once it is, it stays there, no live object has its
\* id and there is no key sprite, whatever stage is loaded; and a "get" on
\* the key with every slot taken changes neither the inventory nor the
\* objects, the key sprite or the removed objects.
GoldenKeyPickedUpOnce ==
  [][ /\ "golden-key" \in inventory'
        <=> IsObjectRemoved(removedObjects', "cyberpunk-street", "golden-key")
      /\ "golden-key" \in inventory
        => /\ "golden-key" \in inventory'
           /\ "golden-key" \notin ObjectIds(objects')
           /\ keySprite' = 0
      /\ (op' = <<"executePendingAction", "get", "golden-key">>
            /\ Cardinality(inventory) >= MaxSlots)
        => /\ inventory' = inventory
           /\ objects' = objects
           /\ keySprite' = keySprite
           /\ removedObjects' = removedObjects
    ]_vars

\* The player has taken the key, been in the room and come back out onto
\* the street, where no key lies.
BackOnStreetWithKey ==
  /\ op = <<"executePendingAction", "walk", "exit-door">>
  /\ currentStage = "cyberpunk-street"
  /\ "golden-key" \in inventory
  /\ IsObjectRemoved(removedObjects, "cyberpunk-street", "golden-key")
  /\ "golden-key" \notin ObjectIds(objects)
  /\ keySprite = 0


(***************************************************************************)
(* One interaction at a time: the player clicks, or takes up the keycard,  *)
(* only while the character stands, nothing is queued and no stage load is *)
(* in flight.  Frames keep coming and a load in flight settles.            *)
(***************************************************************************)
ArriveClicks ==
  { <<Pos(700, 420), "look">>, <<Pos(730, 600), "look">>, <<Pos(110, 510), "open">>,
    <<Pos(110, 510), "walk">> }

NothingQueued ==
  /\ pendingAction = << >>
  /\ pendingNPCAction = << >>
  /\ pendingItemObjectAction = << >>
  /\ ~char.isMoving
  /\ loading = << >>

NextArrive ==
  \/ \E click \in ArriveClicks : NothingQueued /\ CanvasClick(click[1], click[2])
  \/ NothingQueued /\ SelectInventoryItemForUse("keycard")
  \/ GameUpdateToAwait
  \/ \E n \in 1..MaxLoading, pngLoads \in BOOLEAN : LoadCompletes(n, pngLoads)

SpecArrive ==
  /\ InitStage /\ [][NextArrive]_vars
  /\ WF_vars(GameUpdateToAwait)
  /\ WF_vars(\E n \in 1..MaxLoading, pngLoads \in BOOLEAN : LoadCompletes(n, pngLoads))

\* C37: with no input after the click that queued it, every queued action
\* is carried out and its slot emptied; a slot is emptied only by the frame
\* that carries the action out (or, for a walk into another stage, by the
\* end of the load that frame started), with the character arrived, and an
\* action on an object is carried out only while no load it started is in
\* flight, so once.
QueuedActionFiresOnce ==
  /\ (pendingAction # << >>) ~> (pendingAction = << >> /\ ~char.isMoving)
  /\ (pendingNPCAction # << >>) ~> (pendingNPCAction = << >> /\ ~char.isMoving)
  /\ (pendingItemObjectAction # << >>) ~> (pendingItemObjectAction = << >> /\ ~char.isMoving)
  /\ [][ /\ (pendingAction # << >> /\ pendingAction' = << >>)
             => /\ op'[1] \in {"executePendingAction", "loadCompletes"}
                /\ ~char'.isMoving
         /\ op'[1] = "executePendingAction"
             => /\ pendingAction = <<op'[2], op'[3]>>
                /\ loading = << >>
         /\ (pendingNPCAction # << >> /\ pendingNPCAction' = << >>)
             => op' = <<"executePendingNPCAction", pendingNPCAction[1], pendingNPCAction[2]>>
         /\ (pendingItemObjectAction # << >> /\ pendingItemObjectAction' = << >>)
             => op' = <<"executePendingItemObjectAction", pendingItemObjectAction[1],
                        pendingItemObjectAction[2]>>
       ]_vars

\* The character has walked to the bar sign and looked at it.
LookedAtBarSign ==
  /\ op = <<"executePendingAction", "look", "bar-sign">>
  /\ pendingAction = << >>
  /\ ~char.isMoving
  /\ char.x = Num(689) /\ char.y = Num(656)


(***************************************************************************)
(* A dialogue session over the two trees Game registers: display timers    *)
(* and process timers fire, and the player keeps picking one of the        *)
(* responses offered.                                                      *)
(***************************************************************************)
InitSession ==
  /\ NoStage
  /\ now = 0
  /\ char = NewCharacterController(CharacterStartPosition)
  /\ npc = NewNPC(MayaPosition)
  /\ bubble = NewSpeechBubble
  /\ sprites = <<>>
  /\ children = <<>>
  /\ destroyed = {}
  /\ needsSort = FALSE
  /\ dialogueTrees = Registry({JakeTree, MayaTree})
  /\ currentState = Inactive
  /\ gameFlags = <<>>
  /\ inventory = {}
  /\ uiResponses = <<>>
  /\ timers = {}
  /\ op = <<"init">>
  /\ ret = Undefined

ProcessTimersFire == \E t \in timers : t[1] = "process" /\ ProcessTimerFires(t[2])

PlayerChooses == \E responseId \in SeqRange(uiResponses) : SelectResponse(responseId)

NextSession ==
  \/ \E npcId \in {"bartender", "street-vendor"} : TalkTo(npcId)
  \/ DisplayTimerFires
  \/ PlayerChooses
  \/ ProcessTimersFire
  \/ PickUpKey

SpecSession ==
  /\ InitSession /\ [][NextSession]_vars
  /\ WF_vars(DisplayTimerFires)
  /\ WF_vars(ProcessTimersFire)
  /\ WF_vars(PlayerChooses)

\* The nodes of the tree a response of the node leads to.
NextNodes(nodes, id) ==
  { r.nextNodeId : r \in SeqRange(nodes[id].responses) } \cap DOMAIN nodes

\* The most choices a session can still make from the node.
RECURSIVE ChoicesLeft(_, _)
ChoicesLeft(nodes, id) ==
  IF NextNodes(nodes, id) = {} THEN 0
  ELSE 1 + Only({ m \in { ChoicesLeft(nodes, next) : next \in NextNodes(nodes, id) } :
                    \A next \in NextNodes(nodes, id) : ChoicesLeft(nodes, next) <= m })

ChoicesLeftIn(state) == ChoicesLeft(dialogueTrees[state.npcId].nodes, state.currentNodeId)

\* C38: every session over Jake's and Maya's trees ends: an active dialogue
\* leads to an inactive one, and every response processed that leaves the
\* dialogue active moves it to a node with fewer choices left, so no node
\* is visited twice in a session and a session has five choices at most.
SessionsTerminate ==
  /\ currentState.isActive ~> ~currentState.isActive
  /\ [](currentState.isActive => ChoicesLeftIn(currentState) <= 5)
  /\ [][ (op'[1] = "processDialogueResponse" /\ currentState'.isActive)
           => ChoicesLeftIn(currentState') < ChoicesLeftIn(currentState) ]_vars

\* Maya's session has ended at the response that names maya_negotiate,
\* which is no node of her tree.
SessionEndedAtMissingNode ==
  /\ op = <<"processDialogueResponse", "too_expensive", TRUE>>
  /\ ~currentState.isActive
  /\ timers = {}


(***************************************************************************)
(* SpeechBubble driven directly: lines are shown, the bubble is hidden,    *)
(* time passes and the callbacks handed to setTimeout run once their delay *)
(* has passed.  A hide callback is <<"hide", id, due>>: the id setTimeout  *)
(* returned and the time from which it may run.                            *)
(***************************************************************************)
DefaultDuration == 3000

PlayerLineDuration == 1500

MaxBubbleTime == 3000

MaxTimerId == 4

SpeechTexts == {"Locked.", "Hello."}

SpeechDurations == {PlayerLineDuration, DefaultDuration}

HidePending(pending) == { t \in pending : t[1] = "hide" }

\* clearTimeout(id)
ClearTimeout(pending, id) == { t \in pending : ~(t[1] = "hide" /\ t[2] = id) }

\* A showSpeech that sets its timer without clearing the one pending.
ShowSpeechKeepsTimer(b, pending, text, duration, t) ==
  [ bubble |-> [text |-> text, isVisible |-> TRUE, hideTimer |-> b.lastTimer + 1,
                lastTimer |-> b.lastTimer + 1],
    timers |-> pending \cup {<<"hide", b.lastTimer + 1, t + duration>>} ]

\* SpeechBubble.showSpeech(text, duration) at time t: the bubble and the
\* callbacks pending afterwards
ShowSpeech(b, pending, text, duration, t) ==
  [ bubble |-> [text |-> text, isVisible |-> TRUE, hideTimer |-> b.lastTimer + 1,
                lastTimer |-> b.lastTimer + 1],
    timers |-> (IF b.hideTimer # 0 THEN ClearTimeout(pending, b.hideTimer)
                ELSE pending)
                 \cup {<<"hide", b.lastTimer + 1, t + duration>>} ]

\* SpeechBubble.hideSpeech()
HideSpeech(b, pending) ==
  [ bubble |-> [b EXCEPT !.isVisible = FALSE, !.hideTimer = 0],
    timers |-> IF b.hideTimer # 0 THEN ClearTimeout(pending, b.hideTimer)
               ELSE pending ]

BubbleUnchanged == UNCHANGED <<char, npc, depthVars, dialogueTrees, currentState, gameFlags,
                               inventory, uiResponses, stageVars>>

CallShowSpeech(text, duration) ==
  /\ bubble.lastTimer < MaxTimerId
  /\ \E r \in {ShowSpeech(bubble, timers, text, duration, now)} :
        /\ bubble' = r.bubble
        /\ timers' = r.timers
  /\ op' = <<"showSpeech", text, duration>>
  /\ ret' = Undefined
  /\ UNCHANGED now
  /\ BubbleUnchanged

CallHideSpeech ==
  /\ \E r \in {HideSpeech(bubble, timers)} :
        /\ bubble' = r.bubble
        /\ timers' = r.timers
  /\ op' = <<"hideSpeech">>
  /\ ret' = Undefined
  /\ UNCHANGED now
  /\ BubbleUnchanged

\* The callback showSpeech handed to setTimeout runs: hideSpeech
HideTimerFires(t) ==
  /\ t \in HidePending(timers)
  /\ t[3] <= now
  /\ \E r \in {HideSpeech(bubble, timers \ {t})} :
        /\ bubble' = r.bubble
        /\ timers' = r.timers
  /\ op' = <<"hideTimer", t[2], t[3]>>
  /\ ret' = Undefined
  /\ UNCHANGED now
  /\ BubbleUnchanged

\* Time passes.
BubbleClock ==
  /\ now + PlayerLineDuration <= MaxBubbleTime
  /\ now' = now + PlayerLineDuration
  /\ op' = <<"clock">>
  /\ ret' = Undefined
  /\ UNCHANGED <<bubble, timers>>
  /\ BubbleUnchanged

NextBubble ==
  \/ \E text \in SpeechTexts, duration \in SpeechDurations : CallShowSpeech(text, duration)
  \/ CallHideSpeech
  \/ \E t \in timers : HideTimerFires(t)
  \/ BubbleClock

SpecBubble == InitGame /\ [][NextBubble]_vars

\* C39: at most one hide callback is pending, and it is the one of the line
\* on show; a line disappears only by hideSpeech or by its own callback,
\* run once its delay has passed, and is replaced only by showSpeech.
OneHideTimerPerLine ==
  /\ [](Cardinality(HidePending(timers)) <= 1)
  /\ [](\A t \in HidePending(timers) : bubble.isVisible /\ bubble.hideTimer = t[2])
  /\ [][ /\ (bubble.isVisible /\ ~bubble'.isVisible)
             => \/ op' = <<"hideSpeech">>
                \/ /\ op'[1] = "hideTimer"
                   /\ op'[2] = bubble.hideTimer
                   /\ op'[3] <= now
         /\ (bubble.isVisible /\ bubble'.isVisible /\ bubble' # bubble)
             => op'[1] = "showSpeech"
         /\ op'[1] = "showSpeech"
             => /\ bubble'.hideTimer \notin {0, bubble.hideTimer}
                /\ HidePending(timers') = {<<"hide", bubble'.hideTimer, now + op'[3]>>}
       ]_vars

\* A second line was shown while the first one's hide was pending; every
\* delay the first line can have had has passed and the second line is
\* still on show, its own callback due.
SecondLineOutlivesFirstTimer ==
  /\ now = DefaultDuration
  /\ bubble.isVisible
  /\ bubble.hideTimer = 2
  /\ timers = {<<"hide", 2, DefaultDuration>>}


(***************************************************************************)
(* The character walks a step of one unit down the street, into the room   *)
(* and back, Maya is sent across the street, and frames follow.            *)
(***************************************************************************)
ProxyClicks ==
  { <<Pos(400, 691), "walk">>, <<Pos(110, 510), "open">>, <<Pos(110, 510), "walk">>,
    <<Pos(890, 450), "walk">> }

NextProxy ==
  \/ \E click \in ProxyClicks : CanvasClick(click[1], click[2])
  \/ \E key \in Keys : KeyPress(key)
  \/ GameUpdate(TRUE)

SpecProxy == InitStage /\ [][NextProxy]_vars

\* C40: the Y the depth sorter holds for the character is the character's
\* Y, and the Y it holds for every NPC loaded is that NPC's Y, after every
\* frame and every stage transition, also when the step was too small to
\* mark the registry dirty.
ProxyYIsCurrent ==
  /\ DepthEntry(CharacterId) # << >>
  /\ DepthEntry(CharacterId)[1].yPosition = char.y
  /\ \A id \in DOMAIN npcs :
        /\ DepthEntry("npc-" \o id) # << >>
        /\ DepthEntry("npc-" \o id)[1].yPosition = npcs[id].y
        /\ DepthEntry("npc-" \o id)[1].sprite = npcs[id].sprite

\* The character has walked one unit down the street, too little to mark
\* the registry dirty, and the depth sorter holds the new Y; Maya has
\* crossed the street.
SmallStepRegistered ==
  /\ ~char.isMoving
  /\ char.startPosition.y = Num(690)
  /\ char.y = Num(691)
  /\ ~needsSort
  /\ DepthEntry(CharacterId)[1].yPosition = Num(691)
  /\ currentStage = "cyberpunk-street"
  /\ "street-vendor" \in DOMAIN npcs
  /\ npcs["street-vendor"].y = Num(650)

====
